---- MODULE Spec2Model ----
(***************************************************************************)
(* Verification model of the AI Climate Oracle subnet demo                 *)
(* (src/oracle/ai.py, src/oracle/routes.py, src/oracle/models.py).         *)
(*                                                                         *)
(* Numbers are fixed point integers:                                       *)
(*   temperature, precipitation, humidity, wind : tenths                   *)
(*   risk index, confidence, response_time_s    : hundredths               *)
(*   accuracies and scores                      : 1e-4                     *)
(*   response_time_ms                           : milliseconds             *)
(*   TAO amounts                                : 1e-6 (micro TAO)         *)
(* round(x, n) is Python's round: nearest, ties to even.                   *)
(***************************************************************************)
EXTENDS Integers, Sequences, FiniteSets, TLC

VARIABLES
    miners,       \* registry: sequence of miner records, uid = position
    validators,   \* registry: sequence of validator records, uid = position
    netState,     \* [block_height, current_tempo, total_emission_per_tempo]
    challenges,   \* recorded challenge results, oldest first
    hashSalt,     \* per-process salt of the built-in str hash
    clock,        \* wall clock, int(time.time())
    out,          \* the last operation: [op, args, res]
    earlier       \* history: the generator and scoring calls before the last

vars == <<miners, validators, netState, challenges, hashSalt, clock, out, earlier>>

\* A missing string-valued dict key
Absent == "absent"

\* Optional numbers and booleans: a value, None, or a missing dict key
Some(v) == [tag |-> "some", val |-> v]
NoneInt == [tag |-> "none", val |-> 0]
AbsentInt == [tag |-> "absent", val |-> 0]
AbsentBool == [tag |-> "absent", val |-> FALSE]

-----------------------------------------------------------------------------
\* Bounds of the model

\* resolution of one raw draw of a generator: 0..RawMax
RawMax == 8
\* the wall clock runs over 0..MaxClock
MaxClock == 2

-----------------------------------------------------------------------------
\* Arithmetic

Abs(x) == IF x < 0 THEN -x ELSE x
Max(a, b) == IF a >= b THEN a ELSE b
Min(a, b) == IF a <= b THEN a ELSE b
Sgn(x) == IF x < 0 THEN -1 ELSE IF x > 0 THEN 1 ELSE 0

\* round(n/d) to an integer, ties to even (d > 0)
RoundHalfEven(n, d) ==
    LET q == n \div d
        r == n % d
    IN  IF 2 * r < d THEN q
        ELSE IF 2 * r > d THEN q + 1
        ELSE IF q % 2 = 0 THEN q ELSE q + 1

RECURSIVE SumSeq(_)
SumSeq(s) == IF s = <<>> THEN 0 ELSE Head(s) + SumSeq(Tail(s))

\* dict.get(key, default)
Get(table, key, default) == IF key \in DOMAIN table THEN table[key] ELSE default

\* d.get(field, default) on an optional field: only a missing key defaults
GetField(opt, default) == IF opt.tag = "absent" THEN default ELSE opt.val

\* Op(v) for a local v of the code: v is computed once, then used
Once(Op(_), v) == CHOOSE r \in {Op(x) : x \in {v}} : TRUE

-----------------------------------------------------------------------------
\* random.Random(seed): a deterministic stream, a function of the seed only.
\* MTState(seed, k) is the generator state before draw k.

RECURSIVE MTState(_, _)
MTState(seed, k) ==
    IF k = 0 THEN ((Abs(seed) % 1009) * 37 + 11) % 1009
    ELSE (MTState(seed, k - 1) * 31 + 17) % 1009

\* draw k of Random(seed), as a level in 0..RawMax (random() = Raw / RawMax)
Raw(seed, k) == (MTState(seed, k) \div 7) % (RawMax + 1)

\* rng.gauss(0, sigma) / sigma, in halves: the normal quantile of the draw
QuantileHalf(raw) ==
    LET c == 2 * raw - RawMax
    IN  Sgn(c) * ((c * c + 4 * Abs(c)) \div 8)

GaussHalf(seed, k) == QuantileHalf(Raw(seed, k))

\* round(rng.uniform(a, b), n) with a, b given in units of 10^-n
UniformRound(seed, k, a, b) ==
    RoundHalfEven(a * RawMax + (b - a) * Raw(seed, k), RawMax)

\* rng.randint(a, b)
RandInt(seed, k, a, b) == a + ((b - a) * Raw(seed, k)) \div RawMax

\* states the module-level generator may be in when a request arrives
GlobalSeeds == {0, 1}

\* random.choice(options), draw k of the module-level generator
GlobalChoice(g, k, options) ==
    options[1 + (Raw(g, k) * Len(options)) \div (RawMax + 1)]

\* hashlib.md5(hk.encode()).hexdigest()[:6] of the specialist hotkeys
Md5Hex6 ==
    ("5FPWv3kQr" :> "5317f3") @@ ("5FGCpT9xP" :> "37841e") @@
    ("5FFCnL3mK" :> "7b5f3f") @@ ("5FCTrV2nR" :> "96a7ab") @@
    ("5FNGlR4pT" :> "e8097c") @@ ("5FWBb1qUm" :> "8bf7c5") @@
    ("5FHNa7kQr" :> "cdd63c") @@ ("5FSSp9xP" :> "5481ec") @@
    ("5FFReL3mK" :> "b5e019") @@ ("5FCTkV2nR" :> "2ffe9d") @@
    ("5FEEdR4pT" :> "1c23c9") @@ ("5FABb1qUm" :> "a1843b") @@
    ("5FCLa7kQr" :> "a834d9") @@ ("5FDMpP9xP" :> "1e6565") @@
    ("5FCYfL3mK" :> "613431") @@ ("5FTNtV2nR" :> "3b03b6") @@
    ("5FRAvR4pT" :> "2ef43a") @@ ("5FTBb1qUm" :> "bd65aa") @@
    ("5VnS1aXp" :> "67cdd6") @@ ("5VeE2bYq" :> "2c3142") @@
    ("5VsI3cZr" :> "5223b5") @@ ("5VrO4dAs" :> "2cd939") @@
    ("5VnH1aXp" :> "1820c4") @@ ("5VtG2bYq" :> "3992dc") @@
    ("5VdA3cZr" :> "23cfa5") @@ ("5VfN1aXp" :> "1812aa") @@
    ("5VcS2bYq" :> "bef0b3") @@ ("5VnV3cZr" :> "34da22")

\* f"{hk}...{md5(hk)[:6]}"
MaskedHotkey(hk) == <<hk, "...", Md5Hex6[hk]>>

-----------------------------------------------------------------------------
\* Static tables of ai.py

TaskTypes == {"short_term_forecast", "risk_index", "long_range_trend"}
Tiers == {"entry", "mid", "high"}

Specialist(n, hk, t) == [name |-> n, hotkey |-> hk, tier |-> t]

SPECIALISTS ==
    [short_term_forecast |->
        [miners |-> << Specialist("PanguWeather-v3", "5FPWv3kQr", "high"),
                       Specialist("GraphCast-Pro", "5FGCpT9xP", "high"),
                       Specialist("FourCastNet-v2", "5FFCnL3mK", "mid"),
                       Specialist("ClimateTransformer", "5FCTrV2nR", "mid"),
                       Specialist("NeuralGCM-Lite", "5FNGlR4pT", "mid"),
                       Specialist("WeatherBench-Basic", "5FWBb1qUm", "entry") >>,
         validators |-> << [name |-> "NOAA-StationVerifier", hotkey |-> "5VnS1aXp"],
                           [name |-> "ECMWF-EnsembleChecker", hotkey |-> "5VeE2bYq"],
                           [name |-> "SatelliteIR-Validator", hotkey |-> "5VsI3cZr"],
                           [name |-> "Radiosonde-Oracle", hotkey |-> "5VrO4dAs"] >>,
         check_labels |-> << "Surface Temp Within 1.5C", "Precip Category Correct",
                             "Wind Direction Verified" >>,
         analyses |-> 6],
     risk_index |->
        [miners |-> << Specialist("HazardNet-AI", "5FHNa7kQr", "high"),
                       Specialist("StormSurge-Predictor", "5FSSp9xP", "high"),
                       Specialist("FloodRisk-Ensemble", "5FFReL3mK", "mid"),
                       Specialist("CycloneTracker-v3", "5FCTkV2nR", "mid"),
                       Specialist("ExtremeEvent-Detector", "5FEEdR4pT", "mid"),
                       Specialist("AlertBasic-v1", "5FABb1qUm", "entry") >>,
         validators |-> << [name |-> "NHC-TrackVerifier", hotkey |-> "5VnH1aXp"],
                           [name |-> "TideGauge-Oracle", hotkey |-> "5VtG2bYq"],
                           [name |-> "DamageAssess-Checker", hotkey |-> "5VdA3cZr"] >>,
         check_labels |-> << "Hurricane Category Correct", "Storm Surge Within 0.5m",
                             "Landfall Timing Verified" >>,
         analyses |-> 6],
     long_range_trend |->
        [miners |-> << Specialist("ClimateLens-AI", "5FCLa7kQr", "high"),
                       Specialist("DroughtMonitor-Pro", "5FDMpP9xP", "high"),
                       Specialist("CropYield-Forecaster", "5FCYfL3mK", "mid"),
                       Specialist("TeleconnectionNet", "5FTNtV2nR", "mid"),
                       Specialist("RainfallAnomaly-v2", "5FRAvR4pT", "mid"),
                       Specialist("TrendBasic-v1", "5FTBb1qUm", "entry") >>,
         validators |-> << [name |-> "FEWS-NET-Verifier", hotkey |-> "5VfN1aXp"],
                           [name |-> "CHIRPS-SatValidator", hotkey |-> "5VcS2bYq"],
                           [name |-> "NDVI-VegetationOracle", hotkey |-> "5VnV3cZr"] >>,
         check_labels |-> << "Rainfall Anomaly Direction", "Drought Index Category",
                             "Food Security Phase Match" >>,
         analyses |-> 6]]

Conditions(s, e) == [present |-> TRUE, season |-> s, enso_state |-> e]
NoConditions == [present |-> FALSE, season |-> Absent, enso_state |-> Absent]

Synapse(tt, loc, date, cond, seed) ==
    [task_type |-> tt, location |-> loc, target_date |-> date,
     conditions |-> cond, random_seed |-> seed]

GroundTruth(t, p, r, x) ==
    [actual_temp_celsius |-> t, actual_precip_mm |-> p,
     actual_risk_index |-> r, had_extreme_event |-> x]

FullGroundTruth(t, p, r, x) == GroundTruth(Some(t), Some(p), Some(r), Some(x))

DEMO_SCENARIOS ==
    [demo1 |->
        [task_type |-> "short_term_forecast",
         synapse |-> Synapse("short_term_forecast", "Jakarta, Indonesia", "2026-02-25",
                             Conditions("monsoon_peak", "la_nina_moderate"), Some(42001)),
         ground_truth |-> FullGroundTruth(294, 1850, 72, TRUE)],
     demo2 |->
        [task_type |-> "risk_index",
         synapse |-> Synapse("risk_index", "Miami, Florida", "2026-09-15",
                             Conditions("hurricane_peak", "neutral"), Some(42002)),
         ground_truth |-> FullGroundTruth(312, 2800, 85, TRUE)],
     demo3 |->
        [task_type |-> "long_range_trend",
         synapse |-> Synapse("long_range_trend", "Sahel Region, Africa", "2026-06-01",
                             Conditions("pre_monsoon", "la_nina_developing"), Some(42003)),
         ground_truth |-> FullGroundTruth(385, 950, 68, TRUE)]]

Baseline(t, p, h, w, r) ==
    [base_temp |-> t, base_precip_mm |-> p, base_humidity |-> h,
     base_wind_kmh |-> w, risk_baseline |-> r]

CLIMATE_BASELINES ==
    ("Jakarta, Indonesia" :> Baseline(285, 1500, 820, 150, 35)) @@
    ("Miami, Florida" :> Baseline(300, 1200, 750, 200, 30)) @@
    ("Sahel Region, Africa" :> Baseline(370, 600, 350, 180, 40)) @@
    ("Tokyo, Japan" :> Baseline(220, 800, 650, 120, 20)) @@
    ("London, UK" :> Baseline(140, 550, 780, 220, 15)) @@
    ("Sydney, Australia" :> Baseline(250, 700, 600, 160, 22))

DefaultBaseline == Baseline(250, 1000, 700, 150, 25)

\* precip_mult is in tenths
Impact(dt, pm, ri) == [temp_delta |-> dt, precip_mult |-> pm, risk_increase |-> ri]

SEASON_IMPACTS ==
    [monsoon_peak |-> Impact(10, 25, 25),
     hurricane_peak |-> Impact(15, 30, 35),
     pre_monsoon |-> Impact(20, 6, 20),
     dry_season |-> Impact(5, 3, 5),
     winter |-> Impact(-50, 8, 10),
     normal |-> Impact(0, 10, 0)]

ENSO_IMPACTS ==
    [la_nina_moderate |-> Impact(0, 13, 10),
     la_nina_developing |-> Impact(0, 8, 15),
     el_nino_moderate |-> Impact(0, 7, 12),
     neutral |-> Impact(0, 10, 0)]

NeutralImpact == Impact(0, 10, 0)

\* synapse.get("conditions") or {}, then conditions.get(key, default)
ConditionOf(synapse, key, default) ==
    IF ~synapse.conditions.present THEN default
    ELSE IF synapse.conditions[key] = Absent THEN default
    ELSE synapse.conditions[key]

LookupBaseline(location) == Get(CLIMATE_BASELINES, location, DefaultBaseline)
\* an unknown season taken for the first season of the table
LookupSeasonFirst(season) ==
    Get(SEASON_IMPACTS, season, SEASON_IMPACTS["monsoon_peak"])

LookupSeason(season) == Get(SEASON_IMPACTS, season, NeutralImpact)
LookupEnso(enso) == Get(ENSO_IMPACTS, enso, NeutralImpact)

-----------------------------------------------------------------------------
\* list.sort(key=..., reverse=True) is stable: the position in the sorted
\* list of the element at position j, for the keys in list order.

\* the sort putting the later of two equal keys first
SortedPosUnstable(keys, j) ==
    Cardinality({k \in DOMAIN keys : keys[k] > keys[j]})
    + Cardinality({k \in DOMAIN keys : k > j /\ keys[k] = keys[j]}) + 1

SortedPos(keys, j) ==
    Cardinality({k \in DOMAIN keys : keys[k] > keys[j]})
    + Cardinality({k \in DOMAIN keys : k < j /\ keys[k] = keys[j]}) + 1

SortDesc(s, keys) ==
    [p \in DOMAIN s |-> s[CHOOSE j \in DOMAIN s : SortedPos(keys, j) = p]]

\* for i, m in enumerate(miners): m["rank"] = i + 1
AssignRanks(s) == [p \in DOMAIN s |-> [s[p] EXCEPT !.rank = p]]

-----------------------------------------------------------------------------
\* _generate_miner_responses

\* noise and score parameters of a tier: sigma of temperature and
\* precipitation in tenths, of risk in hundredths, score range in 1e-4,
\* response time range in hundredths of a second
GenTier(tier) ==
    IF tier = "high" THEN
        [temp |-> 5, precip |-> 120, risk |-> 4,
         score_lo |-> 8200, score_hi |-> 9700, rt_lo |-> 30, rt_hi |-> 120]
    ELSE IF tier = "mid" THEN
        [temp |-> 12, precip |-> 250, risk |-> 8,
         score_lo |-> 6200, score_hi |-> 8200, rt_lo |-> 80, rt_hi |-> 220]
    ELSE
        [temp |-> 25, precip |-> 450, risk |-> 15,
         score_lo |-> 4000, score_hi |-> 6200, rt_lo |-> 150, rt_hi |-> 350]

\* the default seed taken from the wall clock
GenSeedFromClock(synapse) == GetField(synapse.random_seed, clock)

\* synapse.get("random_seed", 42)
GenSeed(synapse) == GetField(synapse.random_seed, 42)

\* the clamp without its upper bound
ClampRiskNoMin(risk2) == RoundHalfEven(Max(0, risk2), 2)

\* round(min(1.0, max(0.0, risk)), 2), risk given in halves of a hundredth
ClampRisk(risk2) == RoundHalfEven(Min(200, Max(0, risk2)), 2)

\* round(max(10, min(100, humidity)), 1), humidity in tenths
ClampHumidity(h) == Max(100, Min(1000, h))

\* round(max(0, x), 1) for precipitation and wind, x = n / d tenths
ClampNonNeg(n, d) == RoundHalfEven(Max(0, n), d)

\* the body of the loop for the miner at list index i (0-based)
GenMiner(task_type, synapse, ground_truth, i, miner) ==
    LET spec == Get(SPECIALISTS, task_type, SPECIALISTS["short_term_forecast"])
        baseline == LookupBaseline(synapse.location)
        season_impact == LookupSeason(ConditionOf(synapse, "season", "normal"))
        enso_impact == LookupEnso(ConditionOf(synapse, "enso_state", "neutral"))
        actual_temp ==
            GetField(ground_truth.actual_temp_celsius,
                     baseline.base_temp + season_impact.temp_delta)
        \* in 1/20 of a tenth
        actual_precip20 ==
            IF ground_truth.actual_precip_mm.tag = "absent"
            THEN 2 * baseline.base_precip_mm * season_impact.precip_mult
            ELSE 20 * ground_truth.actual_precip_mm.val
        actual_risk ==
            GetField(ground_truth.actual_risk_index,
                     baseline.risk_baseline + season_impact.risk_increase)
        seed == GenSeed(synapse) + i * 7
        tier == miner.tier
        q == GenTier(tier)
        top == (i = 0)
        \* errors as numerators over 2
        temp_error2 ==
            IF top THEN 2 * GaussHalf(seed, 7) ELSE q.temp * GaussHalf(seed, 0)
        precip_error2 ==
            IF top THEN 50 * GaussHalf(seed, 8) ELSE q.precip * GaussHalf(seed, 1)
        risk_error2 ==
            IF top THEN 2 * GaussHalf(seed, 9) ELSE q.risk * GaussHalf(seed, 2)
        score ==
            IF top THEN UniformRound(seed, 5, 9300, 9900)
            ELSE UniformRound(seed, 3, q.score_lo, q.score_hi)
        response_time ==
            IF top THEN UniformRound(seed, 6, 20, 60)
            ELSE UniformRound(seed, 4, q.rt_lo, q.rt_hi)
        nxt == IF top THEN 10 ELSE 5
    IN  [uid |-> i + 1,
         hotkey |-> MaskedHotkey(miner.hotkey),
         name |-> miner.name,
         tier |-> tier,
         predicted_temp_celsius |-> RoundHalfEven(2 * actual_temp + temp_error2, 2),
         predicted_precip_mm |-> ClampNonNeg(actual_precip20 + 10 * precip_error2, 20),
         predicted_risk_index |-> ClampRisk(2 * actual_risk + risk_error2),
         predicted_humidity_pct |->
            ClampHumidity(baseline.base_humidity + 25 * GaussHalf(seed, nxt)),
         predicted_wind_kmh |->
            ClampNonNeg(baseline.base_wind_kmh + 20 * GaussHalf(seed, nxt + 1), 1),
         confidence |->
            IF tier # "entry" THEN UniformRound(seed, nxt + 2, 60, 95)
            ELSE UniformRound(seed, nxt + 2, 40, 65),
         score |-> score,
         response_time_s |-> response_time,
         analysis |-> IF i < spec.analyses THEN i + 1 ELSE spec.analyses,
         rank |-> i + 1]

generate_miner_responses(task_type, synapse, ground_truth, num_miners) ==
    LET spec == Get(SPECIALISTS, task_type, SPECIALISTS["short_term_forecast"])
        pool == spec.miners
        num == Min(num_miners, Len(pool))
        gen == [p \in 1..num |->
                   GenMiner(task_type, synapse, ground_truth, p - 1, pool[p])]
    IN  AssignRanks(SortDesc(gen, [p \in 1..num |-> gen[p].score]))

-----------------------------------------------------------------------------
\* run_miner_prediction

\* sigma of temperature and precipitation in tenths, confidence range in
\* hundredths, latency range in ms, range of the data source count
PredTier(tier) ==
    IF tier = "high" THEN
        [temp |-> 5, precip |-> 100, conf_lo |-> 82, conf_hi |-> 96,
         lat_lo |-> 200, lat_hi |-> 800, src_lo |-> 8, src_hi |-> 15]
    ELSE IF tier = "mid" THEN
        [temp |-> 12, precip |-> 220, conf_lo |-> 65, conf_hi |-> 82,
         lat_lo |-> 500, lat_hi |-> 2000, src_lo |-> 4, src_hi |-> 9]
    ELSE
        [temp |-> 25, precip |-> 400, conf_lo |-> 40, conf_hi |-> 65,
         lat_lo |-> 1500, lat_hi |-> 4000, src_lo |-> 1, src_hi |-> 5]

\* random.Random(synapse_dict.get("random_seed", int(time.time()))): a
\* missing key takes the clock, a key holding None seeds from OS entropy
PredSeed(synapse_dict, now, entropy) ==
    IF synapse_dict.random_seed.tag = "absent" THEN now
    ELSE IF synapse_dict.random_seed.tag = "none" THEN entropy
    ELSE synapse_dict.random_seed.val

run_miner_prediction(synapse_dict, tier, now, entropy) ==
    LET seed == PredSeed(synapse_dict, now, entropy)
        baseline == LookupBaseline(synapse_dict.location)
        season == ConditionOf(synapse_dict, "season", "normal")
        enso == ConditionOf(synapse_dict, "enso_state", "neutral")
        season_impact == LookupSeason(season)
        enso_impact == LookupEnso(enso)
        q == PredTier(tier)
        noise_temp2 == q.temp * GaussHalf(seed, 0)
        noise_precip2 == q.precip * GaussHalf(seed, 1)
        risk_factors ==
            (IF season_impact.risk_increase > 10
             THEN << [factor |-> season,
                      severity |-> RoundHalfEven(season_impact.risk_increase * 5, 10)] >>
             ELSE <<>>)
            \o
            (IF enso_impact.risk_increase > 0
             THEN << [factor |-> enso,
                      severity |-> RoundHalfEven(enso_impact.risk_increase * 5, 10)] >>
             ELSE <<>>)
    IN  [miner_uid |-> 0,
         miner_hotkey |-> "",
         predicted_temp_celsius |->
            RoundHalfEven(2 * (baseline.base_temp + season_impact.temp_delta)
                          + noise_temp2, 2),
         predicted_precip_mm |->
            ClampNonNeg(2 * baseline.base_precip_mm * season_impact.precip_mult
                          * enso_impact.precip_mult + 100 * noise_precip2, 200),
         predicted_humidity_pct |->
            ClampHumidity(baseline.base_humidity + 25 * GaussHalf(seed, 5)),
         predicted_wind_kmh |->
            ClampNonNeg(baseline.base_wind_kmh + 20 * GaussHalf(seed, 6), 1),
         risk_index |->
            ClampRisk(2 * (baseline.risk_baseline + season_impact.risk_increase
                           + enso_impact.risk_increase) + 5 * GaussHalf(seed, 7)),
         confidence |-> UniformRound(seed, 2, q.conf_lo, q.conf_hi),
         risk_factors |-> risk_factors,
         response_time_ms |-> UniformRound(seed, 3, q.lat_lo, q.lat_hi),
         data_sources |-> RandInt(seed, 4, q.src_lo, q.src_hi)]

-----------------------------------------------------------------------------
\* score_prediction

\* the hotkeys the model registers or scores, in a fixed order
HotkeyUniverse ==
    << "", "5Alice", "5Bob", "5Carol", "5Dave", "5Erin", "5Frank", "5Grace",
       "5Heidi" >>

\* hash(str(hotkey)): the built-in str hash, signed and salted per process
StrHash(hk, salt) ==
    LET code == CHOOSE c \in DOMAIN HotkeyUniverse : HotkeyUniverse[c] = hk
    IN  code * 7919 - salt * 104729 + code * code * salt

\* h % 2**31 for a hash h in -2**31 .. 2**31 - 1
Mod31(h) == IF h < 0 THEN (h + 2147483647) + 1 ELSE h

\* the accuracy without its floor at 0
AccuracyNoFloor(predicted, actual, perUnit) ==
    10000 - Abs(predicted - actual) * perUnit

\* round(max(0, 1.0 - abs(predicted - actual) / span), 4), where one unit of
\* the difference costs perUnit in 1e-4
Accuracy(predicted, actual, perUnit) ==
    Max(0, 10000 - Abs(predicted - actual) * perUnit)

\* 0.40*temp + 0.25*precip + 0.15*risk + 0.10*latency + 0.10*consistency,
\* in 1e-6
WeightedSum(t, p, r, l, c) == 40 * t + 25 * p + 15 * r + 10 * l + 10 * c

\* the bonus doubling the score instead of multiplying it by 1.5
FinalScoreDoubled(w, extreme_bonus) ==
    RoundHalfEven(Min(2000000, IF extreme_bonus THEN 4 * w ELSE 2 * w), 200)

\* final *= 1.5 if extreme_bonus; round(min(1.0, final), 4); w in 1e-6
FinalScore(w, extreme_bonus) ==
    RoundHalfEven(Min(2000000, IF extreme_bonus THEN 3 * w ELSE 2 * w), 200)

\* the threshold taken as inclusive
ExtremeBonusInclusive(predicted_risk, had_extreme) ==
    predicted_risk >= 60 /\ had_extreme

\* predicted_extreme and had_extreme
ExtremeBonus(predicted_risk, had_extreme) == predicted_risk > 60 /\ had_extreme

\* round(max(0, 1.0 - latency_ms / 10000), 4)
LatencyScore(latency_ms) == Max(0, 10000 - latency_ms)

score_prediction(prediction, ground_truth, salt) ==
    LET seed == Mod31(StrHash(prediction.miner_hotkey, salt))
        actual_temp == GetField(ground_truth.actual_temp_celsius, 280)
        predicted_temp == GetField(prediction.predicted_temp_celsius, 280)
        temp_accuracy == Accuracy(predicted_temp, actual_temp, 200)
        actual_precip == GetField(ground_truth.actual_precip_mm, 1000)
        predicted_precip == GetField(prediction.predicted_precip_mm, 1000)
        precip_accuracy == Accuracy(predicted_precip, actual_precip, 5)
        actual_risk == GetField(ground_truth.actual_risk_index, 50)
        predicted_risk == GetField(prediction.risk_index, 50)
        risk_accuracy == Accuracy(predicted_risk, actual_risk, 200)
        latency_ms == GetField(prediction.response_time_ms, 1000)
        latency_score == LatencyScore(latency_ms)
        consistency == UniformRound(seed, 0, 6500, 9500)
        had_extreme == GetField(ground_truth.had_extreme_event, FALSE)
        extreme_bonus == ExtremeBonus(predicted_risk, had_extreme)
        final == WeightedSum(temp_accuracy, precip_accuracy, risk_accuracy,
                             latency_score, consistency)
    IN  [temp_accuracy |-> temp_accuracy,
         precip_accuracy |-> precip_accuracy,
         risk_accuracy |-> risk_accuracy,
         latency_score |-> latency_score,
         consistency |-> consistency,
         extreme_event_bonus |-> extreme_bonus,
         final_score |-> FinalScore(final, extreme_bonus)]

\* MinerPrediction(**result).dict() as score_prediction reads it
MinerPrediction(uid, hotkey, temp, precip, risk, latency) ==
    [miner_uid |-> uid, miner_hotkey |-> hotkey,
     predicted_temp_celsius |-> Some(temp), predicted_precip_mm |-> Some(precip),
     risk_index |-> Some(risk), response_time_ms |-> Some(latency)]

-----------------------------------------------------------------------------
\* _generate_validator_results

\* a verdict that approves only when three checks passed
ConsensusUnanimous(checks_passed) ==
    IF checks_passed >= 3 THEN "Approved" ELSE "Disputed"

\* "Approved" if checks_passed >= 2 else "Disputed"
Consensus(checks_passed) ==
    IF checks_passed >= 2 THEN "Approved" ELSE "Disputed"

GenValidator(spec, j, val) ==
    LET seed == 42 + j * 13
        check_labels == spec.check_labels
        \* rng.random() < 0.85 for each label in turn
        checks == [c \in DOMAIN check_labels |->
                      100 * Raw(seed, 1 + c) < 85 * RawMax]
        checks_passed == Cardinality({c \in DOMAIN checks : checks[c]})
    IN  [uid |-> j + 1,
         hotkey |-> MaskedHotkey(val.hotkey),
         name |-> val.name,
         stake_tao |-> UniformRound(seed, 0, 500000, 1800000),
         vtrust |-> UniformRound(seed, 1, 8800, 9900),
         checks_passed |-> checks_passed,
         checks_total |-> Len(check_labels),
         check_details |-> checks,
         consensus |-> Consensus(checks_passed)]

\* every validator of the pool, whatever num_validators asks for
generate_validator_results_pool(task_type, num_validators) ==
    LET spec == Get(SPECIALISTS, task_type, SPECIALISTS["short_term_forecast"])
    IN  [p \in DOMAIN spec.validators |->
            GenValidator(spec, p - 1, spec.validators[p])]

generate_validator_results(task_type, num_validators) ==
    LET spec == Get(SPECIALISTS, task_type, SPECIALISTS["short_term_forecast"])
        pool == spec.validators
        num == Min(num_validators, Len(pool))
    IN  [p \in 1..num |-> GenValidator(spec, p - 1, pool[p])]

-----------------------------------------------------------------------------
\* Reward shares

\* a ZeroDivisionError, and a value
Raised == [raised |-> TRUE, val |-> 0]
Value(v) == [raised |-> FALSE, val |-> v]

\* the share cut off after the sixth decimal instead of rounded
ShareTruncated(pool_num, pool_den, score, total) ==
    IF total = 0 THEN Raised
    ELSE Value((pool_num * score) \div (pool_den * total))

\* round(pool * (score / total), 6) with pool = pool_num / pool_den micro TAO
Share(pool_num, pool_den, score, total) ==
    IF total = 0 THEN Raised
    ELSE Value(RoundHalfEven(pool_num * score, pool_den * total))

\* round(pool * (score / total), 6) if total > 0 else 0
TaoEarned(pool_num, pool_den, score, total) ==
    IF total > 0 THEN Share(pool_num, pool_den, score, total) ELSE Value(0)

\* some step of a list comprehension or loop raised
AnyRaised(shares) == \E p \in DOMAIN shares : shares[p].raised

-----------------------------------------------------------------------------
\* run_demo_scenario

\* DEMO_SCENARIOS.get(scenario_key) when the key is unknown
NoScenario == [task_type |-> Absent]

\* the lookup falling back to the first scenario
LookupScenarioOrFirst(scenario_key) ==
    Get(DEMO_SCENARIOS, scenario_key, DEMO_SCENARIOS["demo1"])

\* DEMO_SCENARIOS.get(scenario_key)
LookupScenario(scenario_key) == Get(DEMO_SCENARIOS, scenario_key, NoScenario)

\* block_number and tempo are drawn from the module-level generator
run_demo_scenario(scenario_key, block_number, tempo, now) ==
    IF LookupScenario(scenario_key).task_type = Absent
    THEN [error |-> <<"Unknown scenario: ", scenario_key>>]
    ELSE
        LET scenario == LookupScenario(scenario_key)
            task_type == scenario.task_type
            synapse == scenario.synapse
            ground_truth == scenario.ground_truth
            miner_responses ==
                generate_miner_responses(task_type, synapse, ground_truth, 6)
            validator_results == generate_validator_results(task_type, 3)
            total_tao == UniformRound(42, 0, 800, 4200)
            total_score ==
                SumSeq([p \in DOMAIN miner_responses |-> miner_responses[p].score])
            earned == [p \in DOMAIN miner_responses |->
                          TaoEarned(41 * total_tao, 1, miner_responses[p].score,
                                    total_score)]
        IN  IF AnyRaised(earned) THEN Raised
            ELSE
            [scenario |-> scenario_key,
             task_type |-> task_type,
             synapse |-> synapse,
             ground_truth |-> ground_truth,
             miner_responses |->
                [p \in DOMAIN miner_responses |->
                    [r \in DOMAIN miner_responses[p] \cup {"tao_earned"} |->
                        IF r = "tao_earned" THEN earned[p].val
                        ELSE miner_responses[p][r]]],
             miner_nodes_consulted |-> Len(miner_responses),
             validator_results |-> validator_results,
             validator_nodes_consulted |-> Len(validator_results),
             tao_reward_pool |-> total_tao,
             consensus_reached |->
                \A p \in DOMAIN validator_results :
                    validator_results[p].consensus = "Approved",
             block_number |-> block_number,
             tempo |-> tempo,
             timestamp |-> now]

-----------------------------------------------------------------------------
\* State

\* at: the clock when the operation ran
NoCall == [op |-> "none", args |-> <<>>, res |-> <<>>, at |-> 0]
Call(op, args, res) == [op |-> op, args |-> args, res |-> res, at |-> clock]

\* salts of the str hash a process may start with (PYTHONHASHSEED)
HashSalts == {0, 1}
\* seeds random.Random(None) may take from the operating system
EntropySeeds == {3, 4}

registry == <<miners, validators, netState, challenges>>

\* total_emission_per_tempo of a deployment, in 1e-4 TAO
Emissions == {5000}

Init ==
    /\ miners = <<>>
    /\ validators = <<>>
    /\ netState \in {[block_height |-> 0, current_tempo |-> 0,
                      total_emission_per_tempo |-> e] : e \in Emissions}
    /\ challenges = <<>>
    /\ hashSalt \in HashSalts
    /\ clock = 0
    /\ out = NoCall
    /\ earlier = [gen |-> NoCall, score |-> NoCall, pred |-> NoCall,
                  demo |-> NoCall]

\* the caller takes the outcome of the last operation; the next request
\* starts after that
Respond ==
    /\ out # NoCall
    /\ out.op # "running"
    /\ out' = NoCall
    /\ UNCHANGED <<registry, hashSalt, clock, earlier>>

Idle == out = NoCall

\* time passes
Tick ==
    /\ Idle
    /\ clock < MaxClock
    /\ clock' = clock + 1
    /\ UNCHANGED <<registry, hashSalt, out, earlier>>

-----------------------------------------------------------------------------
\* The engine functions applied to inputs of their domains

InputLocations == {"London, UK", "Sahel Region, Africa", "Atlantis"}
InputConditions ==
    {NoConditions,
     Conditions("dry_season", "el_nino_moderate"),
     Conditions("hurricane_peak", "la_nina_moderate"),
     Conditions("bogus", Absent),
     Conditions("normal", "bogus")}
InputSeeds == {Some(0), Some(1), NoneInt, AbsentInt}

InputSynapses ==
    {Synapse("risk_index", loc, "2026-02-25", cond, seed) :
        loc \in InputLocations, cond \in InputConditions, seed \in InputSeeds}

InputGroundTruths ==
    {GroundTruth(AbsentInt, AbsentInt, AbsentInt, AbsentBool),
     FullGroundTruth(294, 1850, 72, TRUE),
     GroundTruth(Some(120), Some(100), AbsentInt, Some(FALSE)),
     FullGroundTruth(385, 950, 98, TRUE)}

\* a generator that counts its calls as blocks of the chain
GenerateCallAdvancing(task_type, synapse, ground_truth, num_miners) ==
    /\ Idle
    /\ out' = Call("generate_miner_responses",
                   <<task_type, synapse, ground_truth, num_miners>>,
                   generate_miner_responses(task_type, synapse, ground_truth,
                                            num_miners))
    /\ netState' = [netState EXCEPT !.block_height = @ + 1]
    /\ UNCHANGED <<miners, validators, challenges, hashSalt, clock>>

GenerateCall(task_type, synapse, ground_truth, num_miners) ==
    /\ Idle
    /\ out' = Call("generate_miner_responses",
                   <<task_type, synapse, ground_truth, num_miners>>,
                   generate_miner_responses(task_type, synapse, ground_truth,
                                            num_miners))
    /\ UNCHANGED <<registry, hashSalt, clock>>

EngineGenerate ==
    \E call \in {<<"risk_index", 6>>, <<"unknown_task", 7>>, <<"long_range_trend", 1>>},
       synapse \in {s \in InputSynapses : s.random_seed.tag # "none"},
       ground_truth \in InputGroundTruths :
        /\ GenerateCall(call[1], synapse, ground_truth, call[2])
        /\ UNCHANGED earlier

PredictCall(synapse_dict, tier, entropy) ==
    /\ Idle
    /\ out' = Call("run_miner_prediction", <<synapse_dict, tier>>,
                   run_miner_prediction(synapse_dict, tier, clock, entropy))
    /\ UNCHANGED <<registry, hashSalt, clock>>

EnginePredict ==
    \E synapse_dict \in InputSynapses, tier \in Tiers, entropy \in EntropySeeds :
        /\ PredictCall(synapse_dict, tier, entropy)
        /\ UNCHANGED earlier

ScoreTemps == {230, 244, 290, 294, 295, 300, 344, 350, 360}
ScoreRisks == {60, 61, 90}
ScoreLatencies == {-2000, 800, 12000}

InputPredictions ==
    {MinerPrediction(1, hk, t, 1850, r, l) :
        hk \in {"5Alice", "5Bob"}, t \in ScoreTemps, r \in ScoreRisks,
        l \in ScoreLatencies}

ScoreGroundTruths ==
    {FullGroundTruth(294, 1850, 72, TRUE),
     FullGroundTruth(294, 1850, 72, FALSE),
     GroundTruth(Some(294), Some(1000), Some(72), AbsentBool)}

ScoreCall(prediction, ground_truth) ==
    /\ Idle
    /\ out' = Call("score_prediction", <<prediction, ground_truth>>,
                   score_prediction(prediction, ground_truth, hashSalt))
    /\ UNCHANGED <<registry, hashSalt, clock>>

EngineScore ==
    \E prediction \in InputPredictions, ground_truth \in ScoreGroundTruths :
        /\ ScoreCall(prediction, ground_truth)
        /\ UNCHANGED earlier

NextEngine == EngineGenerate \/ EnginePredict \/ EngineScore \/ Tick \/ Respond

SpecEngine == Init /\ [][NextEngine]_vars

-----------------------------------------------------------------------------
\* GET /api/demo/{scenario_key}

DemoKeys == {"demo1", "demo2", "demo3", "demo99", ""}

Response(status, body) == [status |-> status, body |-> body]

\* an unknown uid answered as if the lookup had succeeded
NotFoundAsOk(what, uid) == Response(200, <<what, uid>>)

\* raise HTTPException(status_code=404, detail=f"... UID {uid} not found")
NotFound(what, uid) == Response(404, <<what, uid>>)

run_demo(scenario_key, block_number, tempo, now) ==
    LET result == run_demo_scenario(scenario_key, block_number, tempo, now)
    IN  IF "raised" \in DOMAIN result THEN Response(500, <<>>)
        ELSE IF "error" \in DOMAIN result THEN Response(404, result.error)
        ELSE Response(200, result)

RunDemo ==
    /\ Idle
    /\ \E scenario_key \in DemoKeys, g \in GlobalSeeds :
        out' = Call("run_demo", <<scenario_key>>,
                    run_demo(scenario_key, RandInt(g, 0, 2800000, 3200000),
                             RandInt(g, 1, 7900, 8100), clock))
    /\ UNCHANGED <<registry, hashSalt, clock, earlier>>

-----------------------------------------------------------------------------
\* The registry (db): miners and validators by uid, the network state and
\* the challenge history

MaxMiners == 2
MaxValidators == 1
\* challenges and tempo cycles start below these heights
MaxBlock == 1
MaxTempo == 1

\* db.add_miner(record): the record with the defaults of MinerInfo
NewMiner(uid, hotkey, tier) ==
    [uid |-> uid, hotkey |-> hotkey, tier |-> tier, is_active |-> TRUE,
     total_challenges |-> 0, score_sum |-> 0, total_tau_earned |-> 0]

\* db.add_validator(record): the record with the defaults of ValidatorInfo
NewValidator(uid, hotkey, stake) ==
    [uid |-> uid, hotkey |-> hotkey, stake |-> stake, is_active |-> TRUE,
     challenges_sent |-> 0, last_weight_block |-> NoneInt]

\* the running average score of a miner, in 1e-4
AvgScore(m) ==
    IF m.total_challenges = 0 THEN 0
    ELSE RoundHalfEven(m.score_sum, m.total_challenges)

\* db.update_miner_score(uid, score, reward) for every ranked score
update_miner_scores(ms, ranked) ==
    [u \in DOMAIN ms |->
        IF \E p \in DOMAIN ranked : ranked[p].miner_uid = u
        THEN LET s == ranked[CHOOSE p \in DOMAIN ranked : ranked[p].miner_uid = u]
             IN  [ms[u] EXCEPT !.total_challenges = @ + 1,
                               !.score_sum = @ + s.score.final_score,
                               !.total_tau_earned = @ + s.tau_earned]
        ELSE ms[u]]

\* db.advance_block(n)
\* a chain that runs backwards
advance_block_back(st, n) == [st EXCEPT !.block_height = @ - n]

\* db.advance_block(n)
advance_block(st, n) == [st EXCEPT !.block_height = @ + n]

\* db.advance_tempo()
advance_tempo(st) == [st EXCEPT !.current_tempo = @ + 1]

\* db.add_challenge(record)
add_challenge(history, record) == Append(history, record)

-----------------------------------------------------------------------------
\* POST /miners/register, POST /validators/register

\* a request carries a registered hotkey or the next unregistered one
RegisterHotkeys(reg) == {HotkeyUniverse[k] : k \in 2..(Len(reg) + 2)}

\* a registration that never finds its hotkey among the records
HotkeyNeverTaken(reg, hotkey) == FALSE

\* for m in db.get_miners().values(): if m["hotkey"] == miner.hotkey
HotkeyTaken(reg, hotkey) == \E u \in DOMAIN reg : reg[u].hotkey = hotkey

RegisterMiner ==
    /\ Idle
    /\ \E hotkey \in RegisterHotkeys(miners), tier \in Tiers :
        IF HotkeyTaken(miners, hotkey)
        THEN /\ out' = Call("register_miner", <<hotkey, tier>>,
                            Response(400, "Hotkey already registered"))
             /\ UNCHANGED miners
        ELSE /\ Len(miners) < MaxMiners
             /\ LET result == NewMiner(Len(miners) + 1, hotkey, tier)
                IN  /\ miners' = Append(miners, result)
                    /\ out' = Call("register_miner", <<hotkey, tier>>,
                                   Response(200, result))
    /\ UNCHANGED <<validators, netState, challenges, hashSalt, clock, earlier>>

InputStakes == {1000}

RegisterValidator ==
    /\ Idle
    /\ \E hotkey \in RegisterHotkeys(validators), stake \in InputStakes :
        IF HotkeyTaken(validators, hotkey)
        THEN /\ out' = Call("register_validator", <<hotkey, stake>>,
                            Response(400, "Hotkey already registered"))
             /\ UNCHANGED validators
        ELSE /\ Len(validators) < MaxValidators
             /\ LET result == NewValidator(Len(validators) + 1, hotkey, stake)
                IN  /\ validators' = Append(validators, result)
                    /\ out' = Call("register_validator", <<hotkey, stake>>,
                                   Response(200, result))
    /\ UNCHANGED <<miners, netState, challenges, hashSalt, clock, earlier>>

-----------------------------------------------------------------------------
\* One challenge: ground truth, dispatch, scoring, ranking and rewards

\* ground_truth = None
NoGroundTruth ==
    [f \in DOMAIN GroundTruth(AbsentInt, AbsentInt, AbsentInt, AbsentBool)
           \cup {"extreme_event_type"} |->
        IF f = "extreme_event_type" THEN Absent
        ELSE GroundTruth(AbsentInt, AbsentInt, AbsentInt, AbsentBool)[f]]

EventTypes == <<"urban_flooding", "heatwave", "tropical_storm", "None">>

\* the ground truth of a historical challenge, the first draws of rng;
\* full_tempo_cycle draws no extreme_event_type
HistoricalGroundTruth(seed, with_event_type) ==
    [NoGroundTruth EXCEPT
        !.actual_temp_celsius = Some(UniformRound(seed, 0, 200, 380)),
        !.actual_precip_mm = Some(UniformRound(seed, 1, 100, 2500)),
        !.actual_risk_index = Some(UniformRound(seed, 2, 10, 90)),
        !.had_extreme_event = Some(10 * Raw(seed, 3) < 3 * RawMax),
        !.extreme_event_type =
            IF with_event_type
            THEN EventTypes[1 + (Raw(seed, 4) * Len(EventTypes)) \div (RawMax + 1)]
            ELSE Absent]

\* every registered miner, whatever its is_active says
ActiveMinersAll(ms) == ms

\* the active miners in registry order
ActiveMiners(ms) == SelectSeq(ms, LAMBDA m : m.is_active)

\* the validators taken as active whatever their is_active says
ActiveValidatorsAll(vs) == vs

\* [v for v in validators if v["is_active"]]
ActiveValidators(vs) == SelectSeq(vs, LAMBDA v : v.is_active)

\* run_miner_prediction for every active miner; entropies[p] seeds the p-th
\* generator when the synapse carries random_seed = None
Dispatch(ms, synapse, now, entropies) ==
    LET active == ActiveMiners(ms)
    IN  [p \in DOMAIN active |->
            [run_miner_prediction(synapse, active[p].tier, now, entropies[p])
                EXCEPT !.miner_uid = active[p].uid,
                       !.miner_hotkey = active[p].hotkey]]

\* pred.dict()
PredDict(pred) ==
    MinerPrediction(pred.miner_uid, pred.miner_hotkey,
                    pred.predicted_temp_celsius, pred.predicted_precip_mm,
                    pred.risk_index, pred.response_time_ms)

\* the estimate left as it is first written, with "final_score": 0
NearTermScoreUnset(seed, p) ==
    LET k == 5 * (p - 1)
    IN  [temp_accuracy |-> UniformRound(seed, k, 5000, 9500),
         precip_accuracy |-> UniformRound(seed, k + 1, 3000, 9000),
         risk_accuracy |-> UniformRound(seed, k + 2, 4000, 8500),
         latency_score |-> UniformRound(seed, k + 3, 7000, 9900),
         consistency |-> UniformRound(seed, k + 4, 6000, 9200),
         extreme_event_bonus |-> FALSE,
         final_score |-> 0]

\* the estimated score of the p-th prediction of a near-term challenge
NearTermScore(seed, p) ==
    LET k == 5 * (p - 1)
        temp_accuracy == UniformRound(seed, k, 5000, 9500)
        precip_accuracy == UniformRound(seed, k + 1, 3000, 9000)
        risk_accuracy == UniformRound(seed, k + 2, 4000, 8500)
        latency_score == UniformRound(seed, k + 3, 7000, 9900)
        consistency == UniformRound(seed, k + 4, 6000, 9200)
    IN  [temp_accuracy |-> temp_accuracy,
         precip_accuracy |-> precip_accuracy,
         risk_accuracy |-> risk_accuracy,
         latency_score |-> latency_score,
         consistency |-> consistency,
         extreme_event_bonus |-> FALSE,
         final_score |->
            RoundHalfEven(WeightedSum(temp_accuracy, precip_accuracy,
                                      risk_accuracy, latency_score,
                                      consistency), 100)]

\* the unranked score entries, in the order of the predictions
ScoreAll(predictions, ground_truth, seed, salt) ==
    [p \in DOMAIN predictions |->
        [miner_uid |-> predictions[p].miner_uid,
         miner_hotkey |-> predictions[p].miner_hotkey,
         score |-> IF ground_truth # NoGroundTruth
                   THEN score_prediction(PredDict(predictions[p]), ground_truth,
                                         salt)
                   ELSE NearTermScore(seed, p),
         rank |-> 0,
         tau_earned |-> 0]]

FinalScores(scores) == [p \in DOMAIN scores |-> scores[p].score.final_score]

\* the division brought before the loop: pool / total_scores once
RankAndRewardHoisted(scores, pool_num, pool_den) ==
    LET sorted == SortDesc(scores, FinalScores(scores))
        total_scores == SumSeq(FinalScores(sorted))
        per_point == Share(pool_num, pool_den, 1, total_scores)
        earned == [p \in DOMAIN sorted |->
                      Share(pool_num, pool_den, sorted[p].score.final_score,
                            total_scores)]
    IN  IF per_point.raised \/ AnyRaised(earned) THEN Raised
        ELSE Value([p \in DOMAIN sorted |->
                      [sorted[p] EXCEPT !.rank = p,
                                        !.tau_earned = earned[p].val]])

\* scores.sort(key=final_score, reverse=True), then for each score in turn
\* its rank and, if total_scores > 0, its share of the pool
RankAndReward(scores, pool_num, pool_den) ==
    LET sorted == SortDesc(scores, FinalScores(scores))
        total_scores == SumSeq(FinalScores(sorted))
        earned == [p \in DOMAIN sorted |->
                      TaoEarned(pool_num, pool_den, sorted[p].score.final_score,
                                total_scores)]
    IN  IF AnyRaised(earned) THEN Raised
        ELSE Value([p \in DOMAIN sorted |->
                      [sorted[p] EXCEPT !.rank = p,
                                        !.tau_earned = earned[p].val]])

\* dispatch, scoring, ranking and rewards of one challenge on the miners
\* ms: the predictions and the ranked scores, unless a division raised
Evaluate(ms, synapse, ground_truth, rng, entropies, pool_den) ==
    Once(LAMBDA predictions :
            Once(LAMBDA scores :
                    Once(LAMBDA ranked :
                            IF ranked.raised THEN Raised
                            ELSE Value([miner_predictions |-> predictions,
                                        scores |-> ranked.val]),
                         RankAndReward(scores,
                                       41 * netState.total_emission_per_tempo,
                                       pool_den)),
                 ScoreAll(predictions, ground_truth, rng, hashSalt)),
         Dispatch(ms, synapse, clock, entropies))

-----------------------------------------------------------------------------
\* POST /validators/{uid}/run-challenge

NoSynapse == [tag |-> "none"]

\* the challenge the handler makes up when the request carries none
SynthSynapse(task_type, g) ==
    Synapse(task_type,
            GlobalChoice(g, 0, <<"Jakarta, Indonesia", "Miami, Florida",
                                 "Sahel Region, Africa">>),
            "2026-02-25",
            Conditions(GlobalChoice(g, 1, <<"monsoon_peak", "hurricane_peak",
                                            "normal">>),
                       GlobalChoice(g, 2, <<"la_nina_moderate", "neutral">>)),
            Some(RandInt(g, 3, 10000000, 99999999)))

\* synapse.random_seed if synapse.random_seed else int(time.time())
ChallengeSeed(synapse, now) ==
    IF synapse.random_seed.tag = "some" /\ synapse.random_seed.val # 0
    THEN synapse.random_seed.val
    ELSE now

\* the seeds random.Random(None) takes from the operating system, a fresh
\* one for each dispatched miner
EntropyChoices(synapse, n) ==
    IF synapse.random_seed.tag = "none"
    THEN {[p \in 1..n |-> e + 2 * p] : e \in EntropySeeds}
    ELSE {[p \in 1..n |-> 0]}

\* a record that is filed as historical whatever the challenge was
ChallengeRecordHistorical(synapse, challenge_type, ground_truth, predictions, scores, now, tempo) ==
    [synapse |-> synapse,
     challenge_type |-> "historical",
     ground_truth |-> ground_truth,
     miner_predictions |-> predictions,
     scores |-> scores,
     timestamp |-> now,
     tempo |-> tempo]

ChallengeRecord(synapse, challenge_type, ground_truth, predictions, scores, now, tempo) ==
    [synapse |-> synapse,
     challenge_type |-> challenge_type,
     ground_truth |-> ground_truth,
     miner_predictions |-> predictions,
     scores |-> scores,
     timestamp |-> now,
     tempo |-> tempo]

\* what the handler leaves once the challenge is evaluated: the response
\* and the registry
ChallengeOutcome(uid, synapse, is_historical, ground_truth, blocks, done) ==
    IF done.raised
    THEN [response |-> Response(500, <<>>), miners |-> miners,
          validators |-> validators, netState |-> netState,
          challenges |-> challenges]
    ELSE
    LET challenge_record ==
            ChallengeRecord(synapse,
                            IF is_historical THEN "historical" ELSE "near_term",
                            ground_truth, done.val.miner_predictions,
                            done.val.scores, clock, netState.current_tempo)
    IN  [response |-> Response(200, challenge_record),
         miners |-> update_miner_scores(miners, done.val.scores),
         validators |->
            [validators EXCEPT
                ![uid] = [@ EXCEPT !.challenges_sent = @ + 1,
                                   !.last_weight_block =
                                        Some(netState.block_height)]],
         netState |-> advance_block(netState, blocks),
         challenges |-> add_challenge(challenges, challenge_record)]

\* the handler for a registered validator
run_challenge(uid, synapse, is_historical, entropies, blocks) ==
    LET rng == ChallengeSeed(synapse, clock)
        ground_truth == IF is_historical THEN HistoricalGroundTruth(rng, TRUE)
                        ELSE NoGroundTruth
    IN  Once(LAMBDA done :
                ChallengeOutcome(uid, synapse, is_historical, ground_truth,
                                 blocks, done),
             Evaluate(miners, synapse, ground_truth, rng, entropies, 1))

ProvidedSynapses ==
    {Synapse("risk_index", "Tokyo, Japan", "2026-03-01", NoConditions, seed) :
        seed \in {NoneInt, Some(7)}}

RunChallenge ==
    /\ Idle
    /\ \E uid \in 1..(Len(validators) + 1),
          task_type \in {"short_term_forecast"},
          given \in {NoSynapse} \cup {Some(s) : s \in ProvidedSynapses},
          g \in GlobalSeeds :
        IF uid \notin DOMAIN validators
        THEN /\ out' = Call("run_challenge", <<uid, task_type, given>>,
                            NotFound("Validator UID not found", uid))
             /\ UNCHANGED registry
        ELSE /\ netState.block_height < MaxBlock
             /\ LET synapse == IF given.tag = "none"
                               THEN SynthSynapse(task_type, g) ELSE given.val
                    k == IF given.tag = "none" THEN 4 ELSE 0
                    is_historical == 10 * Raw(g, k) < 7 * RawMax
                    blocks == RandInt(g, k + 1, 1, 5)
                IN  \E entropies \in
                        EntropyChoices(synapse, Len(ActiveMiners(miners))) :
                      \E r \in {run_challenge(uid, synapse, is_historical,
                                               entropies, blocks)} :
                          /\ out' = Call("run_challenge",
                                         <<uid, task_type, given>>, r.response)
                          /\ miners' = r.miners
                          /\ validators' = r.validators
                          /\ netState' = r.netState
                          /\ challenges' = r.challenges
    /\ UNCHANGED <<hashSalt, clock, earlier>>

-----------------------------------------------------------------------------
\* run_challenge one step at a time: the handler's frame is kept in out
\* until the response is made

Running(args, pc, frame) ==
    [op |-> "running", args |-> args, res |-> <<>>, at |-> clock,
     pc |-> pc, frame |-> frame]

AtStep(pc) == out.op = "running" /\ out.pc = pc

\* l.305-349: the lookup, the synapse, the challenge type, the ground truth
StepCreated ==
    /\ Idle
    /\ \E uid \in 1..(Len(validators) + 1),
          task_type \in {"short_term_forecast"},
          given \in {NoSynapse} \cup {Some(s) : s \in ProvidedSynapses},
          g \in GlobalSeeds :
        IF uid \notin DOMAIN validators
        THEN out' = Call("run_challenge", <<uid, task_type, given>>,
                         NotFound("Validator UID not found", uid))
        ELSE /\ netState.block_height < MaxBlock
             /\ LET synapse == IF given.tag = "none"
                               THEN SynthSynapse(task_type, g) ELSE given.val
                    k == IF given.tag = "none" THEN 4 ELSE 0
                    is_historical == 10 * Raw(g, k) < 7 * RawMax
                    rng == ChallengeSeed(synapse, clock)
                IN  out' = Running(<<uid, task_type, given>>, "created",
                        [uid |-> uid,
                         synapse |-> synapse,
                         challenge_type |-> IF is_historical THEN "historical"
                                            ELSE "near_term",
                         rng |-> rng,
                         ground_truth |->
                            IF is_historical
                            THEN HistoricalGroundTruth(rng, TRUE)
                            ELSE NoGroundTruth,
                         seeds |-> <<>>,
                         predictions |-> <<>>,
                         scores |-> <<>>,
                         blocks |-> RandInt(g, k + 1, 1, 5)])
    /\ UNCHANGED <<registry, hashSalt, clock, earlier>>

\* l.352-360: one prediction for each active miner; seeds[p] is what the
\* generator of the p-th call of run_miner_prediction is made from
StepDispatched ==
    /\ AtStep("created")
    /\ \E entropies \in EntropyChoices(out.frame.synapse,
                                        Len(ActiveMiners(miners))) :
        out' = [out EXCEPT
                    !.pc = "dispatched",
                    !.frame.seeds =
                        [p \in DOMAIN ActiveMiners(miners) |->
                            PredSeed(out.frame.synapse, clock, entropies[p])],
                    !.frame.predictions =
                        Dispatch(miners, out.frame.synapse, clock, entropies)]
    /\ UNCHANGED <<registry, hashSalt, clock, earlier>>

\* l.363-394: one score entry for each prediction, rank and tau_earned 0
StepScored ==
    /\ AtStep("dispatched")
    /\ out' = [out EXCEPT
                  !.pc = "scored",
                  !.frame.scores =
                      ScoreAll(out.frame.predictions, out.frame.ground_truth,
                               out.frame.rng, hashSalt)]
    /\ UNCHANGED <<registry, hashSalt, clock, earlier>>

\* l.397: scores.sort(key=final_score, reverse=True)
StepRanked ==
    /\ AtStep("scored")
    /\ out' = [out EXCEPT
                  !.pc = "ranked",
                  !.frame.scores =
                      SortDesc(out.frame.scores, FinalScores(out.frame.scores))]
    /\ UNCHANGED <<registry, hashSalt, clock, earlier>>

\* l.398-409: the rank, the share and db.update_miner_score of each entry
StepRewarded ==
    /\ AtStep("ranked")
    /\ \E ranked \in {RankAndReward(out.frame.scores,
                                     41 * netState.total_emission_per_tempo,
                                     1)} :
        IF ranked.raised
        THEN /\ out' = Call("run_challenge", out.args, Response(500, <<>>))
             /\ UNCHANGED miners
        ELSE /\ out' = [out EXCEPT !.pc = "rewarded",
                                   !.frame.scores = ranked.val]
             /\ miners' = update_miner_scores(miners, ranked.val)
    /\ UNCHANGED <<validators, netState, challenges, hashSalt, clock, earlier>>

\* a frame written to the history as soon as it holds scores
RecordableUnranked(pc) == pc \in {"scored", "ranked", "rewarded"}

\* l.411-430 follow the loop over the ranked scores
Recordable(pc) == pc = "rewarded"

\* l.411-432: the validator's counters, the block height, the record
StepRecorded ==
    /\ out.op = "running"
    /\ Recordable(out.pc)
    /\ LET f == out.frame
           challenge_record ==
               ChallengeRecord(f.synapse, f.challenge_type, f.ground_truth,
                               f.predictions, f.scores, clock,
                               netState.current_tempo)
       IN  /\ validators' =
                [validators EXCEPT
                    ![f.uid] = [@ EXCEPT !.challenges_sent = @ + 1,
                                         !.last_weight_block =
                                              Some(netState.block_height)]]
           /\ netState' = advance_block(netState, f.blocks)
           /\ challenges' = add_challenge(challenges, challenge_record)
           /\ out' = Call("run_challenge", out.args,
                          Response(200, challenge_record))
    /\ UNCHANGED <<miners, hashSalt, clock, earlier>>

-----------------------------------------------------------------------------
\* POST /validators/{uid}/generate-challenge

MaxSent == 2

\* f"{n:02d}"
Pad2(n) == IF n < 10 THEN "0" \o ToString(n) ELSE ToString(n)

\* horizon_map.get(task_type, 7); all three entries are drawn
HorizonOf(task_type, g) ==
    LET horizon_map ==
            [short_term_forecast |-> GlobalChoice(g, 1, <<3, 5, 7>>),
             risk_index |-> GlobalChoice(g, 2, <<3, 5>>),
             long_range_trend |-> GlobalChoice(g, 3, <<30, 60, 90>>)]
    IN  IF task_type \in DOMAIN horizon_map THEN horizon_map[task_type] ELSE 7

generate_challenge(task_type, g) ==
    [synapse |->
        Synapse(task_type,
                GlobalChoice(g, 0, <<"Jakarta, Indonesia", "Miami, Florida",
                                     "Sahel Region, Africa", "Tokyo, Japan",
                                     "London, UK", "Sydney, Australia">>),
                "2026-" \o Pad2(RandInt(g, 4, 1, 12)) \o "-"
                        \o Pad2(RandInt(g, 5, 1, 28)),
                Conditions(GlobalChoice(g, 6, <<"monsoon_peak", "hurricane_peak",
                                                "pre_monsoon", "dry_season",
                                                "winter", "normal">>),
                           GlobalChoice(g, 7, <<"la_nina_moderate",
                                                "la_nina_developing",
                                                "el_nino_moderate", "neutral">>)),
                Some(RandInt(g, 8, 10000000, 99999999))),
     forecast_horizon_days |-> HorizonOf(task_type, g)]

GenerateChallenge ==
    /\ Idle
    /\ \E uid \in 1..(Len(validators) + 1), task_type \in TaskTypes,
          g \in GlobalSeeds :
        IF uid \notin DOMAIN validators
        THEN /\ out' = Call("generate_challenge", <<uid, task_type>>,
                            NotFound("Validator UID not found", uid))
             /\ UNCHANGED registry
        ELSE /\ validators[uid].challenges_sent < MaxSent
             /\ out' = Call("generate_challenge", <<uid, task_type>>,
                            Response(200, generate_challenge(task_type, g)))
             /\ validators' =
                    [validators EXCEPT ![uid].challenges_sent = @ + 1]
             /\ UNCHANGED <<miners, netState, challenges>>
    /\ UNCHANGED <<hashSalt, clock, earlier>>

-----------------------------------------------------------------------------
\* POST /miners/{uid}/predict

MinerPredict ==
    /\ Idle
    /\ \E uid \in 1..(Len(miners) + 1), synapse \in ProvidedSynapses,
          entropy \in EntropySeeds :
        out' = Call("miner_predict", <<uid, synapse>>,
                    IF uid \notin DOMAIN miners
                    THEN NotFound("Miner UID not found", uid)
                    ELSE Response(200,
                            [run_miner_prediction(synapse, miners[uid].tier,
                                                  clock, entropy)
                                EXCEPT !.miner_uid = uid,
                                       !.miner_hotkey = miners[uid].hotkey]))
    /\ UNCHANGED <<registry, hashSalt, clock, earlier>>

-----------------------------------------------------------------------------
\* POST /simulate/full-tempo

TempoTaskTypes == <<"short_term_forecast", "risk_index", "long_range_trend">>
TempoLocations == <<"Jakarta, Indonesia", "Miami, Florida", "Sahel Region, Africa">>

\* what iteration i leaves once its challenge is evaluated
TempoRecorded(prev, synapse, is_historical, ground_truth, done) ==
    IF done.raised THEN [prev EXCEPT !.raised = TRUE]
    ELSE
    LET challenge_record ==
            ChallengeRecord(synapse,
                            IF is_historical THEN "historical" ELSE "near_term",
                            ground_truth, done.val.miner_predictions,
                            done.val.scores, clock, netState.current_tempo)
    IN  [raised |-> FALSE,
         miners |-> update_miner_scores(prev.miners, done.val.scores),
         challenges |-> add_challenge(prev.challenges, challenge_record),
         results |-> Append(prev.results, challenge_record)]

\* iteration i (from 0) of the loop over the task types, on the miners and
\* the history that the iterations before it left in prev
TempoChallenge(prev, i, g) ==
    IF prev.raised THEN prev
    ELSE
    LET synapse ==
            Synapse(TempoTaskTypes[i + 1],
                    TempoLocations[(i % Len(TempoLocations)) + 1],
                    "2026-02-25",
                    Conditions(GlobalChoice(g, 3 * i, <<"monsoon_peak",
                                                        "hurricane_peak",
                                                        "pre_monsoon">>),
                               GlobalChoice(g, 3 * i + 1, <<"la_nina_moderate",
                                                            "neutral">>)),
                    Some(RandInt(g, 3 * i + 2, 10000000, 99999999)))
        is_historical == i < 2
        rng == synapse.random_seed.val
        ground_truth == IF is_historical THEN HistoricalGroundTruth(rng, FALSE)
                        ELSE NoGroundTruth
    IN  Once(LAMBDA done :
                TempoRecorded(prev, synapse, is_historical, ground_truth, done),
             Evaluate(prev.miners, synapse, ground_truth, rng,
                      [p \in DOMAIN prev.miners |-> 0], 3))

\* the first active validator, whatever its stake
LeadValidatorFirst(active) == active[1]

\* max(active_validators, key=stake): the first of the highest stake
LeadValidator(active) ==
    active[CHOOSE p \in DOMAIN active :
              /\ \A q \in DOMAIN active : active[q].stake <= active[p].stake
              /\ \A q \in 1..(p - 1) : active[q].stake < active[p].stake]

\* sorted(miners, key=avg_score, reverse=True) with its ranks
Leaderboard(ms) ==
    LET sorted == SortDesc(ms, [u \in DOMAIN ms |-> AvgScore(ms[u])])
    IN  [p \in DOMAIN sorted |->
            [rank |-> p, uid |-> sorted[p].uid, hotkey |-> sorted[p].hotkey,
             tier |-> sorted[p].tier, avg_score |-> AvgScore(sorted[p]),
             total_tau |-> sorted[p].total_tau_earned]]

\* the handler once the three challenges have run
TempoOutcome(done) ==
    LET active_validators == ActiveValidators(validators)
        lead_validator == LeadValidator(active_validators)
        state == advance_tempo(netState)
    IN  IF done.raised
        THEN [response |-> Response(500, <<>>), miners |-> done.miners,
              validators |-> validators, netState |-> netState,
              challenges |-> done.challenges]
        ELSE
        [response |->
            Response(200,
                [tempo_completed |-> state.current_tempo - 1,
                 new_tempo |-> state.current_tempo,
                 block_height |-> state.block_height,
                 lead_validator_uid |-> lead_validator.uid,
                 challenges_run |-> Len(done.results),
                 challenge_types |-> <<"historical", "historical", "near_term">>,
                 task_types |-> TempoTaskTypes,
                 total_tao_distributed |-> state.total_emission_per_tempo,
                 challenges |-> done.results,
                 updated_leaderboard |-> Leaderboard(done.miners)]),
         miners |-> done.miners,
         validators |->
            [validators EXCEPT
                ![lead_validator.uid] =
                    [@ EXCEPT !.challenges_sent = @ + 3,
                              !.last_weight_block = Some(state.block_height)]],
         netState |-> state,
         challenges |-> done.challenges]

\* the handler when some validator is active
full_tempo_cycle(g) ==
    Once(LAMBDA done : TempoOutcome(done),
         Once(LAMBDA second : TempoChallenge(second, 2, g),
              Once(LAMBDA first : TempoChallenge(first, 1, g),
                   TempoChallenge([raised |-> FALSE, miners |-> miners,
                                   challenges |-> challenges, results |-> <<>>],
                                  0, g))))

FullTempoCycle ==
    /\ Idle
    /\ IF validators = <<>>
       THEN /\ out' = Call("full_tempo_cycle", <<>>,
                           Response(400, "No validators registered"))
            /\ UNCHANGED registry
       ELSE IF ActiveValidators(validators) = <<>>
       THEN /\ out' = Call("full_tempo_cycle", <<>>,
                           Response(400, "No active validators"))
            /\ UNCHANGED registry
       ELSE /\ netState.current_tempo < MaxTempo
            /\ \E g \in GlobalSeeds :
                \E r \in {full_tempo_cycle(g)} :
                    /\ out' = Call("full_tempo_cycle", <<>>, r.response)
                    /\ miners' = r.miners
                    /\ validators' = r.validators
                    /\ netState' = r.netState
                    /\ challenges' = r.challenges
    /\ UNCHANGED <<hashSalt, clock, earlier>>

-----------------------------------------------------------------------------
\* The service: every request runs to completion before the next one starts

Next ==
    \/ RegisterMiner
    \/ RegisterValidator
    \/ RunChallenge
    \/ FullTempoCycle
    \/ RunDemo
    \/ Respond

Spec == Init /\ [][Next]_vars

-----------------------------------------------------------------------------
\* Challenges on a populated subnet: PoolSize miners and one validator have
\* registered before the first challenge

PoolSize == 5

PoolEmissions == {1000, 5000}

\* the tiers of the registered miners repeat in this order, from any of them
TierCycle == <<"entry", "mid", "high">>

InitChallenge ==
    /\ \E shift \in DOMAIN TierCycle :
        miners = [u \in 1..PoolSize |->
                     NewMiner(u, HotkeyUniverse[u + 1],
                              TierCycle[((u + shift) % Len(TierCycle)) + 1])]
    /\ validators = <<NewValidator(1, HotkeyUniverse[2], 1000)>>
    /\ netState \in {[block_height |-> 0, current_tempo |-> 0,
                      total_emission_per_tempo |-> e] : e \in PoolEmissions}
    /\ challenges = <<>>
    /\ hashSalt \in HashSalts
    /\ clock = 0
    /\ out = NoCall
    /\ earlier = [gen |-> NoCall, score |-> NoCall, pred |-> NoCall,
                  demo |-> NoCall]

NextChallenge == RunChallenge \/ RunDemo \/ Respond

SpecChallenge == InitChallenge /\ [][NextChallenge]_vars

-----------------------------------------------------------------------------
\* The populated subnet with run_challenge taken step by step, and the tempo
\* cycle as an operation that follows it

NextLifecycle ==
    \/ StepCreated
    \/ StepDispatched
    \/ StepScored
    \/ StepRanked
    \/ StepRewarded
    \/ StepRecorded
    \/ FullTempoCycle
    \/ Respond

SpecLifecycle == InitChallenge /\ [][NextLifecycle]_vars

-----------------------------------------------------------------------------
\* A subnet on which the registry holds deactivated records: the second of
\* three miners and, if validators are registered, the only one or the one
\* with the highest stake of three

InitDeactivated ==
    /\ miners = <<NewMiner(1, HotkeyUniverse[2], "mid"),
                  [NewMiner(2, HotkeyUniverse[3], "high")
                      EXCEPT !.is_active = FALSE],
                  NewMiner(3, HotkeyUniverse[4], "entry")>>
    /\ validators \in
        {<<>>,
         <<[NewValidator(1, HotkeyUniverse[2], 1000) EXCEPT !.is_active = FALSE]>>,
         <<NewValidator(1, HotkeyUniverse[2], 1000),
           [NewValidator(2, HotkeyUniverse[3], 3000) EXCEPT !.is_active = FALSE],
           NewValidator(3, HotkeyUniverse[4], 2000)>>}
    /\ netState \in {[block_height |-> 0, current_tempo |-> 0,
                      total_emission_per_tempo |-> e] : e \in Emissions}
    /\ challenges = <<>>
    /\ hashSalt \in HashSalts
    /\ clock = 0
    /\ out = NoCall
    /\ earlier = [gen |-> NoCall, score |-> NoCall, pred |-> NoCall,
                  demo |-> NoCall]

NextDeactivated ==
    \/ RegisterValidator
    \/ GenerateChallenge
    \/ MinerPredict
    \/ RunChallenge
    \/ FullTempoCycle
    \/ Respond

SpecDeactivated == InitDeactivated /\ [][NextDeactivated]_vars

-----------------------------------------------------------------------------
\* Registrations alone, one request after the other, from the empty registry

NextRegistry == RegisterMiner \/ RegisterValidator \/ Respond

SpecRegistry == Init /\ [][NextRegistry]_vars

-----------------------------------------------------------------------------
\* Repeated calls: the caller keeps the outcome of a generator or scoring
\* call to compare it with the next one

Remember ==
    /\ out # NoCall
    /\ out' = NoCall
    /\ earlier' =
        IF out.op = "generate_miner_responses" THEN [earlier EXCEPT !.gen = out]
        ELSE IF out.op = "score_prediction" THEN [earlier EXCEPT !.score = out]
        ELSE IF out.op = "run_miner_prediction" THEN [earlier EXCEPT !.pred = out]
        ELSE earlier
    /\ UNCHANGED <<registry, hashSalt, clock>>

RepeatSynapses ==
    {Synapse("risk_index", loc, "2026-02-25", NoConditions, seed) :
        loc \in {"London, UK", "Atlantis"}, seed \in {Some(7), AbsentInt}}

RepeatGenerate ==
    \E call \in {<<"risk_index", 6>>, <<"short_term_forecast", 2>>},
       synapse \in RepeatSynapses,
       ground_truth \in {GroundTruth(AbsentInt, AbsentInt, AbsentInt, AbsentBool),
                         FullGroundTruth(294, 1850, 72, TRUE)} :
        /\ GenerateCall(call[1], synapse, ground_truth, call[2])
        /\ UNCHANGED earlier

NextRepeatGen == RepeatGenerate \/ RunDemo \/ Tick \/ Remember

SpecRepeatGen == Init /\ [][NextRepeatGen]_vars

RepeatScore ==
    \E prediction \in {MinerPrediction(1, "5Alice", t, 1850, 90, 800) : t \in ScoreTemps} :
        /\ ScoreCall(prediction, FullGroundTruth(294, 1850, 72, TRUE))
        /\ UNCHANGED earlier

NextRepeatScore == RepeatScore \/ Remember

SpecRepeatScore == Init /\ [][NextRepeatScore]_vars

\* the challenge as synapse.dict() hands it over (random_seed None), and as
\* a dict without the key
RepeatPredict ==
    \E synapse_dict \in {Synapse("risk_index", "London, UK", "2026-02-25",
                                  NoConditions, seed) :
                             seed \in {Some(7), NoneInt, AbsentInt}},
       tier \in Tiers, entropy \in EntropySeeds :
        /\ PredictCall(synapse_dict, tier, entropy)
        /\ UNCHANGED earlier

NextRepeatPredict == RepeatPredict \/ Tick \/ Remember

SpecRepeatPredict == Init /\ [][NextRepeatPredict]_vars

-----------------------------------------------------------------------------
\* Properties of the engine functions (SpecEngine)

IsGen == out.op = "generate_miner_responses"
IsPredict == out.op = "run_miner_prediction"
IsScore == out.op = "score_prediction"

InRanges(risk, precip, humidity, wind) ==
    /\ 0 <= risk /\ risk <= 100
    /\ precip >= 0
    /\ 100 <= humidity /\ humidity <= 1000
    /\ wind >= 0

\* C5: every prediction of the miner response generator and of
\* run_miner_prediction has 0 <= risk index <= 1, precipitation >= 0,
\* 10 <= humidity <= 100 and wind >= 0.
PredictionRanges ==
    /\ IsGen =>
        \A p \in DOMAIN out.res :
            InRanges(out.res[p].predicted_risk_index, out.res[p].predicted_precip_mm,
                     out.res[p].predicted_humidity_pct, out.res[p].predicted_wind_kmh)
    /\ IsPredict =>
        InRanges(out.res.risk_index, out.res.predicted_precip_mm,
                 out.res.predicted_humidity_pct, out.res.predicted_wind_kmh)

\* a generator call in which the clamps of risk (at 1.0) and of
\* precipitation (at 0) both acted
PredictionRangesWitness ==
    /\ IsGen
    /\ \E p \in DOMAIN out.res : out.res[p].predicted_risk_index = 100
    /\ \E p \in DOMAIN out.res : out.res[p].predicted_precip_mm = 0

\* C6: each of temp_accuracy, precip_accuracy, risk_accuracy, latency_score
\* and consistency of a score lies in [0,1].
ScoreComponentRanges ==
    IsScore =>
        \A f \in {"temp_accuracy", "precip_accuracy", "risk_accuracy",
                  "latency_score", "consistency"} :
            0 <= out.res[f] /\ out.res[f] <= 10000

\* the weighted sum of a score's components, in 1e-6
ComponentSum(r) ==
    40 * r.temp_accuracy + 25 * r.precip_accuracy + 15 * r.risk_accuracy
    + 10 * r.latency_score + 10 * r.consistency

\* x, in 1e-4, is n/200 rounded to 4 decimals
IsRounded(x, n) == Abs(200 * x - n) <= 100

\* C7: final_score is min(1.0, m * weighted sum) rounded to 4 decimals, with
\* m = 1.5 under the extreme-event bonus and 1 otherwise, so it lies in
\* [0,1]; with had_extreme_event and a predicted risk of 0.9 it is 1.5 times
\* the weighted sum, clamped to 1.0.
FinalScoreFormula ==
    IsScore =>
        LET r == out.res
            w == ComponentSum(r)
            risk == out.args[1].risk_index.val
            had == out.args[2].had_extreme_event
        IN  /\ 0 <= r.final_score /\ r.final_score <= 10000
            /\ IsRounded(r.final_score,
                         Min(2000000, IF r.extreme_event_bonus THEN 3 * w ELSE 2 * w))
            /\ (risk = 90 /\ had = Some(TRUE)) =>
                   IsRounded(r.final_score, Min(2000000, 3 * w))

\* a bonused score that the clamp does not reach
FinalScoreWitness ==
    /\ IsScore
    /\ out.args[1].risk_index.val = 90
    /\ out.args[2].had_extreme_event = Some(TRUE)
    /\ out.res.final_score < 10000
    /\ 2 * out.res.final_score > 3 * (ComponentSum(out.res) \div 100) - 2

\* C8: extreme_event_bonus is true exactly when the predicted risk index is
\* strictly above 0.6 and the ground truth had an extreme event.
ExtremeBonusGating ==
    IsScore =>
        (out.res.extreme_event_bonus <=>
            (/\ out.args[1].risk_index.val > 60
             /\ out.args[2].had_extreme_event = Some(TRUE)))

\* a predicted risk of exactly 0.6 against an extreme event: no bonus
ExtremeBonusWitness ==
    /\ IsScore
    /\ out.args[1].risk_index.val = 60
    /\ out.args[2].had_extreme_event = Some(TRUE)
    /\ ~out.res.extreme_event_bonus

-----------------------------------------------------------------------------
\* Repeated generator calls (SpecRepeatGen)

SameGenCall ==
    /\ IsGen
    /\ earlier.gen.op = "generate_miner_responses"
    /\ out.args = earlier.gen.args

-----------------------------------------------------------------------------
\* Repeated scoring calls (SpecRepeatScore)

\* two scoring calls that differ in the predicted temperature only
SameButTemp ==
    /\ IsScore
    /\ earlier.score.op = "score_prediction"
    /\ out.args[2] = earlier.score.args[2]
    /\ [out.args[1] EXCEPT !.predicted_temp_celsius = Some(0)]
       = [earlier.score.args[1] EXCEPT !.predicted_temp_celsius = Some(0)]

\* |predicted_temp - actual_temp| of a scoring call, in tenths
TempDiff(call) ==
    Abs(call.args[1].predicted_temp_celsius.val - call.args[2].actual_temp_celsius.val)

TempAccuracyBounds(call) ==
    /\ 0 <= call.res.temp_accuracy /\ call.res.temp_accuracy <= 10000
    /\ call.res.temp_accuracy = 10000 <=> TempDiff(call) = 0

\* C9 as stated: a smaller temperature difference always gives a strictly
\* larger temp_accuracy.
TempMonotoneStrict ==
    SameButTemp =>
        /\ TempAccuracyBounds(out)
        /\ TempDiff(out) < TempDiff(earlier.score) =>
               out.res.temp_accuracy > earlier.score.res.temp_accuracy

\* C9 amended: a smaller temperature difference never gives a smaller
\* temp_accuracy, and gives a strictly larger one when it is below 5.0;
\* temp_accuracy is 1.0 exactly at difference 0 and stays within [0,1].
TempMonotone ==
    SameButTemp =>
        /\ TempAccuracyBounds(out)
        /\ TempDiff(out) < TempDiff(earlier.score) =>
               /\ out.res.temp_accuracy >= earlier.score.res.temp_accuracy
               /\ TempDiff(out) < 50 =>
                      out.res.temp_accuracy > earlier.score.res.temp_accuracy

\* a closer prediction scored after one that is more than 5.0 off
TempMonotoneWitness ==
    /\ SameButTemp
    /\ 0 < TempDiff(out) /\ TempDiff(out) < 50
    /\ TempDiff(earlier.score) > 50
    /\ out.res.temp_accuracy > 0
    /\ earlier.score.res.temp_accuracy = 0

-----------------------------------------------------------------------------
\* Allocation and ranking in the handlers (Spec, SpecChallenge)

IsDemo == out.op = "run_demo" /\ out.res.status = 200
IsChallenge == out.op = "run_challenge" /\ out.res.status = 200
IsTempo == out.op = "full_tempo_cycle" /\ out.res.status = 200

\* the sum of field f over the records of a sequence
SumOf(rs, f) == SumSeq([p \in DOMAIN rs |-> rs[p][f]])

\* |allocated - pool| of the allocation a response reports, in micro TAO,
\* and the number of miners it covers
DemoGap == Abs(SumOf(out.res.body.miner_responses, "tao_earned")
               - 41 * out.res.body.tao_reward_pool)
ChallengeGap == Abs(SumOf(out.res.body.scores, "tau_earned")
                    - 41 * netState.total_emission_per_tempo)
DemoPositive == SumOf(out.res.body.miner_responses, "score") > 0
ChallengePositive == SumSeq(FinalScores(out.res.body.scores)) > 0

\* C1 as stated: with a positive score total the allocated amounts sum to
\* the pool within 1e-6, in the demo scenarios and in freeform challenges.
RewardConservationMicro ==
    /\ (IsDemo /\ DemoPositive) => DemoGap <= 1
    /\ (IsChallenge /\ ChallengePositive) => ChallengeGap <= 1

\* C1 amended: with a positive score total the allocated amounts sum to the
\* pool within half a micro TAO per miner, N * 0.5e-6 for N miners.
RewardConservation ==
    /\ (IsDemo /\ DemoPositive) =>
        2 * DemoGap <= Len(out.res.body.miner_responses)
    /\ (IsChallenge /\ ChallengePositive) =>
        2 * ChallengeGap <= Len(out.res.body.scores)

\* a freeform challenge whose rewards miss the pool by more than one micro
RewardConservationWitness ==
    /\ IsChallenge
    /\ ChallengePositive
    /\ ChallengeGap > 1

\* the allocations of a tempo cycle's challenges are all-zero where their
\* scores sum to 0
TempoZeroShares ==
    \A c \in DOMAIN out.res.body.challenges :
        LET scores == out.res.body.challenges[c].scores
        IN  SumSeq(FinalScores(scores)) = 0 =>
                \A p \in DOMAIN scores : scores[p].tau_earned = 0

\* C2: when the final scores sum to 0 (no active miner, or all scores zero),
\* every allocated reward is 0 and no division by zero occurs, in the demo
\* scenarios, in freeform challenges and in tempo cycles.
DegenerateAllocation ==
    /\ out.op \in {"run_demo", "run_challenge", "full_tempo_cycle"} =>
        out.res.status # 500
    /\ (IsDemo /\ ~DemoPositive) =>
        \A p \in DOMAIN out.res.body.miner_responses :
            out.res.body.miner_responses[p].tao_earned = 0
    /\ (IsChallenge /\ ~ChallengePositive) =>
        \A p \in DOMAIN out.res.body.scores :
            out.res.body.scores[p].tau_earned = 0
    /\ IsTempo => TempoZeroShares

\* a tempo cycle on a subnet without miners, after a freeform challenge on it
DegenerateAllocationWitness ==
    /\ IsTempo
    /\ miners = <<>>
    /\ Len(challenges) = 4
    /\ \A c \in DOMAIN challenges : challenges[c].scores = <<>>

\* the position of a miner in the order of dispatch
DispatchPos(predictions, uid) ==
    CHOOSE p \in DOMAIN predictions : predictions[p].miner_uid = uid

\* rs carries the ranks 1..N, by non-increasing score, equal scores in the
\* order of generation
IsRanked(rs, score, order) ==
    /\ {rs[p].rank : p \in DOMAIN rs} = 1..Len(rs)
    /\ \A a, b \in DOMAIN rs :
        rs[a].rank < rs[b].rank =>
            /\ score[a] >= score[b]
            /\ score[a] = score[b] => order[a] < order[b]

DemoRanked ==
    LET rs == out.res.body.miner_responses
    IN  IsRanked(rs, [p \in DOMAIN rs |-> rs[p].score],
                 [p \in DOMAIN rs |-> rs[p].uid])

ChallengeRanked ==
    LET rs == out.res.body.scores
    IN  IsRanked(rs, FinalScores(rs),
                 [p \in DOMAIN rs |->
                    DispatchPos(out.res.body.miner_predictions, rs[p].miner_uid)])

\* C3: the ranks of N results are exactly 1..N, the results are ordered by
\* non-increasing score, and results of equal score keep their generation
\* order; for the demo miner responses and for the scores of a freeform
\* challenge.
Ranking ==
    /\ IsDemo => DemoRanked
    /\ IsChallenge => ChallengeRanked

\* a freeform challenge in which two miners tie
RankingWitness ==
    /\ IsChallenge
    /\ \E a, b \in DOMAIN out.res.body.scores :
        /\ a < b
        /\ out.res.body.scores[a].score.final_score
           = out.res.body.scores[b].score.final_score
        /\ out.res.body.scores[a].miner_uid < out.res.body.scores[b].miner_uid

\* C10: a demo request with a key outside the scenario set gets the
\* not-found outcome (404, naming the key) instead of a failure or a
\* generated result, and leaves the registry, the clock and the hash salt as
\* they were.
UnknownScenarioKey ==
    [][(out = NoCall /\ out'.op = "run_demo"
        /\ out'.args[1] \notin {"demo1", "demo2", "demo3"}) =>
            /\ out'.res.status = 404
            /\ out'.res.body = <<"Unknown scenario: ", out'.args[1]>>
            /\ UNCHANGED <<registry, hashSalt, clock, earlier>>]_vars

\* the empty key refused on a subnet with miners and a recorded challenge
UnknownScenarioKeyWitness ==
    /\ out.op = "run_demo"
    /\ out.args[1] = ""
    /\ out.res.status = 404
    /\ miners # <<>>
    /\ challenges # <<>>

-----------------------------------------------------------------------------
\* Rejected requests (SpecDeactivated, Spec)

\* C11: a tempo cycle requested while no validator is registered, or none
\* is active, is rejected (400) and leaves miners, validators, block height,
\* tempo and the challenge history as they were.
TempoPrecondition ==
    [][(/\ out = NoCall
        /\ out'.op = "full_tempo_cycle"
        /\ \A v \in DOMAIN validators : ~validators[v].is_active) =>
            /\ out'.res.status = 400
            /\ UNCHANGED registry]_vars

\* the cycle refused for a deactivated validator that has run a challenge
TempoPreconditionWitness ==
    /\ out.op = "full_tempo_cycle"
    /\ out.res.status = 400
    /\ validators # <<>>
    /\ \A v \in DOMAIN validators : ~validators[v].is_active
    /\ challenges # <<>>

\* C12: run_challenge and generate_challenge for a validator uid that is not
\* registered, and miner_predict for a miner uid that is not registered, end
\* in 404 and leave miners, validators, block height, tempo and the challenge
\* history as they were.
UnknownUid ==
    [][(/\ out = NoCall
        /\ \/ /\ out'.op \in {"run_challenge", "generate_challenge"}
              /\ out'.args[1] \notin DOMAIN validators
           \/ /\ out'.op = "miner_predict"
              /\ out'.args[1] \notin DOMAIN miners) =>
            /\ out'.res.status = 404
            /\ UNCHANGED registry]_vars

\* a challenge requested of an unregistered validator while another one is
\* registered and has already sent challenges
UnknownUidWitness ==
    /\ out.op = "generate_challenge"
    /\ out.args[1] \notin DOMAIN validators
    /\ out.res.status = 404
    /\ \E v \in DOMAIN validators : validators[v].challenges_sent > 0

-----------------------------------------------------------------------------
\* Registration (SpecRegistry)

HotkeysDistinct(reg) ==
    \A a, b \in DOMAIN reg : reg[a].hotkey = reg[b].hotkey => a = b

\* C13: no two registered miners and no two registered validators have the
\* same hotkey, and a registration whose hotkey is already registered ends in
\* 400 and leaves the records and the next uid (the number of records) as
\* they were.
HotkeyUniqueness ==
    /\ [](HotkeysDistinct(miners) /\ HotkeysDistinct(validators))
    /\ [][(/\ out = NoCall
            /\ \/ /\ out'.op = "register_miner"
                  /\ \E u \in DOMAIN miners :
                        miners[u].hotkey = out'.args[1]
               \/ /\ out'.op = "register_validator"
                  /\ \E u \in DOMAIN validators :
                        validators[u].hotkey = out'.args[1]) =>
                /\ out'.res.status = 400
                /\ UNCHANGED registry]_vars

\* the first miner's hotkey refused while two miners are registered
HotkeyUniquenessWitness ==
    /\ out.op = "register_miner"
    /\ out.res.status = 400
    /\ Len(miners) = 2
    /\ out.args[1] = miners[1].hotkey
    /\ miners[2].hotkey # miners[1].hotkey

-----------------------------------------------------------------------------
\* The steps of a freeform challenge (SpecLifecycle)

Phase(call) ==
    IF call.op = "running" THEN call.pc
    ELSE IF call.op = "run_challenge" /\ call.res.status = 200 THEN "recorded"
    ELSE "none"

Uids(entries) == [p \in DOMAIN entries |-> entries[p].miner_uid]

\* C14: a freeform challenge goes through created, dispatched (one
\* prediction for each active miner), scored, ranked, rewarded, recorded in
\* this order; the history grows only at the last of these steps, by the one
\* result whose scores are the ranked and rewarded ones, and no step of any
\* operation changes or removes a result that is already in the history.
LifecycleOrder ==
    [][LET a == Phase(out)
           b == Phase(out')
       IN  /\ b = "created" => out = NoCall
           /\ b = "dispatched" =>
                /\ a = "created"
                /\ Uids(out'.frame.predictions) =
                        [p \in DOMAIN ActiveMiners(miners) |->
                            ActiveMiners(miners)[p].uid]
           /\ b = "scored" =>
                /\ a = "dispatched"
                /\ Uids(out'.frame.scores) = Uids(out.frame.predictions)
           /\ b = "ranked" =>
                /\ a = "scored"
                /\ \A p, q \in DOMAIN out'.frame.scores :
                        p < q => out'.frame.scores[p].score.final_score
                                    >= out'.frame.scores[q].score.final_score
           /\ b = "rewarded" =>
                /\ a = "ranked"
                /\ Uids(out'.frame.scores) = Uids(out.frame.scores)
                /\ \A p \in DOMAIN out'.frame.scores :
                        out'.frame.scores[p].rank = p
           /\ b = "recorded" =>
                /\ a = "rewarded"
                /\ out'.res.body.miner_predictions = out.frame.predictions
                /\ out'.res.body.scores = out.frame.scores
                /\ challenges' = Append(challenges, out'.res.body)
           /\ (a # "none" /\ b # "recorded") => challenges' = challenges
           /\ \A k \in DOMAIN challenges :
                /\ k \in DOMAIN challenges'
                /\ challenges'[k] = challenges[k]]_vars

\* a tempo cycle has completed after a freeform challenge was recorded
LifecycleOrderWitness ==
    /\ out.op = "full_tempo_cycle"
    /\ out.res.status = 200
    /\ Len(challenges) = 4
    /\ Len(challenges[1].scores) = PoolSize
    /\ \E p \in DOMAIN challenges[1].scores :
            challenges[1].scores[p].tau_earned > 0

-----------------------------------------------------------------------------
\* The canned scenarios (SpecChallenge)

\* C15: a known demo scenario answers with 6 miner responses, which are the
\* miners at the first 6 positions of the specialist pool of its task type,
\* and with 3 validator results; the response of the miner at pool position
\* 0 (uid 1) has a score in [0.93, 0.99], and the ranks are a permutation of
\* 1..6.
DemoShape ==
    IsDemo =>
        LET body == out.res.body
            rs == body.miner_responses
            pool == SPECIALISTS[DEMO_SCENARIOS[out.args[1]].task_type].miners
        IN  /\ Len(rs) = 6
            /\ {rs[p].uid : p \in DOMAIN rs} = 1..6
            /\ \A p \in DOMAIN rs :
                    /\ rs[p].name = pool[rs[p].uid].name
                    /\ rs[p].hotkey = MaskedHotkey(pool[rs[p].uid].hotkey)
                    /\ rs[p].tier = pool[rs[p].uid].tier
                    /\ rs[p].uid = 1 =>
                            rs[p].score >= 9300 /\ rs[p].score <= 9900
            /\ Len(body.validator_results) = 3
            /\ {rs[p].rank : p \in DOMAIN rs} = 1..6

\* the scenario whose task type has four validators in its pool
DemoShapeWitness ==
    /\ IsDemo
    /\ out.args[1] \in {"demo1", "demo2", "demo3"}
    /\ Len(SPECIALISTS[out.res.body.task_type].validators) > 3
    /\ Len(out.res.body.miner_responses) = 6

-----------------------------------------------------------------------------
\* Repeated predictions (SpecRepeatPredict)

\* the same prediction call, for a challenge without a seed, made again
SamePredictCall ==
    /\ IsPredict
    /\ earlier.pred.op = "run_miner_prediction"
    /\ out.args = earlier.pred.args
    /\ out.args[1].random_seed.tag # "some"

\* C16: two runs of run_miner_prediction for a challenge that carries no
\* random_seed, with the same location and target date, return the same
\* values, at whatever times they run.
SeedlessDeterminism == SamePredictCall => out.res = earlier.pred.res

-----------------------------------------------------------------------------
\* The generators of the dispatched miners (SpecLifecycle)

\* C17: the generators of two distinct miners that answer the same freeform
\* challenge are made from different seeds.
IndependentStreams ==
    (out.op = "running" /\ out.pc # "created") =>
        \A p, q \in DOMAIN out.frame.seeds :
            p # q => out.frame.seeds[p] # out.frame.seeds[q]

-----------------------------------------------------------------------------
\* Validator verdicts of the canned scenarios (SpecChallenge)

\* C18: in every validator verdict of a scenario, checks_passed is the
\* number of checks that came out true, checks_total is the number of check
\* labels of the task type, and consensus is "Approved" exactly when
\* checks_passed >= 2, "Disputed" otherwise; consensus_reached is true
\* exactly when every verdict is "Approved".
ValidatorConsensus ==
    IsDemo =>
        LET body == out.res.body
            vs == body.validator_results
            labels == SPECIALISTS[body.task_type].check_labels
        IN  /\ \A v \in DOMAIN vs :
                    /\ DOMAIN vs[v].check_details = DOMAIN labels
                    /\ vs[v].checks_passed =
                            Cardinality({c \in DOMAIN vs[v].check_details :
                                            vs[v].check_details[c]})
                    /\ vs[v].checks_total = Len(labels)
                    /\ vs[v].consensus \in {"Approved", "Disputed"}
                    /\ vs[v].consensus = "Approved" <=> vs[v].checks_passed >= 2
            /\ body.consensus_reached <=>
                    \A v \in DOMAIN vs : vs[v].consensus = "Approved"

\* a scenario in which one validator has a failed check and still approves
ValidatorConsensusWitness ==
    /\ IsDemo
    /\ out.res.body.consensus_reached
    /\ \E v \in DOMAIN out.res.body.validator_results :
            /\ out.res.body.validator_results[v].checks_passed = 2
            /\ out.res.body.validator_results[v].checks_total = 3
            /\ out.res.body.validator_results[v].consensus = "Approved"

-----------------------------------------------------------------------------
\* Score totals and challenge types (SpecChallenge, SpecLifecycle)

\* C19: every final_score that score_prediction or the near-term estimate
\* produces is > 0, so the final scores of a freeform challenge that at least
\* one miner answered sum to more than 0, and a challenge whose scores sum
\* to 0 is one that no miner answered.
PositiveTotal ==
    /\ IsScore => out.res.final_score > 0
    /\ IsChallenge =>
        LET scores == out.res.body.scores
        IN  /\ Len(scores) = Len(out.res.body.miner_predictions)
            /\ \A p \in DOMAIN scores : scores[p].score.final_score > 0
            /\ scores # <<>> => ChallengePositive
            /\ ~ChallengePositive => out.res.body.miner_predictions = <<>>

\* a near-term challenge that every miner of the pool answered
PositiveTotalWitness ==
    /\ IsChallenge
    /\ out.res.body.challenge_type = "near_term"
    /\ Len(out.res.body.scores) = PoolSize
    /\ ChallengePositive

\* the weighted sum of a score entry's components, without multiplier
PlainSum(score) ==
    RoundHalfEven(WeightedSum(score.temp_accuracy, score.precip_accuracy,
                              score.risk_accuracy, score.latency_score,
                              score.consistency), 100)

\* C20: every result in the history has its ground truth exactly when its
\* challenge_type is "historical"; a "near_term" result has none, and each of
\* its scores has extreme_event_bonus false and a final_score equal to the
\* weighted sum of its components, not multiplied by 1.5.
GroundTruthByType ==
    \A c \in DOMAIN challenges :
        LET r == challenges[c]
        IN  /\ r.challenge_type \in {"historical", "near_term"}
            /\ r.ground_truth # NoGroundTruth <=> r.challenge_type = "historical"
            /\ r.challenge_type = "historical" =>
                    r.ground_truth.actual_temp_celsius.tag = "some"
            /\ r.challenge_type = "near_term" =>
                    \A p \in DOMAIN r.scores :
                        /\ ~r.scores[p].score.extreme_event_bonus
                        /\ r.scores[p].score.final_score
                                = PlainSum(r.scores[p].score)

\* a history that holds a scored result of either type
GroundTruthByTypeWitness ==
    /\ \E c \in DOMAIN challenges :
            /\ challenges[c].challenge_type = "near_term"
            /\ challenges[c].scores # <<>>
    /\ \E c \in DOMAIN challenges :
            /\ challenges[c].challenge_type = "historical"
            /\ challenges[c].ground_truth.had_extreme_event.tag = "some"
            /\ Len(challenges[c].scores) = PoolSize

-----------------------------------------------------------------------------
\* Effects of a freeform challenge (SpecDeactivated)

RanChallenge == out = NoCall /\ out'.op = "run_challenge" /\ out'.res.status = 200

\* the entries of a sequence that carry miner uid u
EntriesOf(entries, u) == {p \in DOMAIN entries : entries[p].miner_uid = u}

\* C21: a freeform challenge holds exactly one prediction and one score for
\* each registered miner that is active and none for an inactive one; each
\* active miner's statistics are updated once, with its score and reward,
\* and an inactive miner's record is left as it was.
ActiveOnlyDispatch ==
    [][RanChallenge =>
        LET body == out'.res.body
        IN  \A u \in DOMAIN miners :
                IF miners[u].is_active
                THEN /\ Cardinality(EntriesOf(body.miner_predictions, u)) = 1
                     /\ Cardinality(EntriesOf(body.scores, u)) = 1
                     /\ \A p \in EntriesOf(body.scores, u) :
                            miners'[u] =
                                [miners[u] EXCEPT
                                    !.total_challenges = @ + 1,
                                    !.score_sum =
                                        @ + body.scores[p].score.final_score,
                                    !.total_tau_earned =
                                        @ + body.scores[p].tau_earned]
                ELSE /\ EntriesOf(body.miner_predictions, u) = {}
                     /\ EntriesOf(body.scores, u) = {}
                     /\ miners'[u] = miners[u]]_vars

\* a challenge answered by the first and the third miner, not by the second
ActiveOnlyDispatchWitness ==
    /\ out.op = "run_challenge"
    /\ out.res.status = 200
    /\ Len(miners) = 3
    /\ ~miners[2].is_active
    /\ miners[2].total_challenges = 0
    /\ miners[1].total_challenges = 1
    /\ miners[3].total_challenges = 1
    /\ Len(out.res.body.scores) = 2

-----------------------------------------------------------------------------
\* Lookups of the generators (SpecEngine)

\* the condition a challenge has under key if the table knows it, else dflt
Effective(synapse, key, table, dflt) ==
    IF synapse.conditions.present /\ synapse.conditions[key] \in DOMAIN table
    THEN synapse.conditions[key]
    ELSE dflt

\* the challenge with its conditions spelled out from the tables
Normalised(synapse) ==
    [synapse EXCEPT !.conditions =
        Conditions(Effective(synapse, "season", SEASON_IMPACTS, "normal"),
                   Effective(synapse, "enso_state", ENSO_IMPACTS, "neutral"))]

\* C22: a location the baseline table lacks gets the record (25.0, 100.0,
\* 70.0, 15.0, 0.25), a season or ENSO state the tables lack gets the
\* modifier (0, 1.0, 0), and both generators return for a challenge with
\* unknown or missing conditions what they return for the same challenge
\* under season "normal" and ENSO "neutral"; no call fails.
FallbackTotality ==
    /\ (IsGen \/ IsPredict) =>
        LET synapse == IF IsGen THEN out.args[2] ELSE out.args[1]
        IN  /\ synapse.location \notin DOMAIN CLIMATE_BASELINES =>
                    LookupBaseline(synapse.location)
                        = Baseline(250, 1000, 700, 150, 25)
            /\ \A key \in {"season", "enso_state"} :
                    LET given == ConditionOf(synapse, key, "")
                    IN  /\ given \notin DOMAIN SEASON_IMPACTS =>
                                LookupSeason(given) = Impact(0, 10, 0)
                        /\ given \notin DOMAIN ENSO_IMPACTS =>
                                LookupEnso(given) = Impact(0, 10, 0)
    /\ IsGen =>
        out.res = generate_miner_responses(out.args[1], Normalised(out.args[2]),
                                           out.args[3], out.args[4])
    /\ (IsPredict /\ out.args[1].random_seed.tag # "none") =>
        out.res = run_miner_prediction(Normalised(out.args[1]), out.args[2],
                                       out.at, 0)

\* a prediction for an unknown location under an unknown season
FallbackTotalityWitness ==
    /\ IsPredict
    /\ out.args[1].location = "Atlantis"
    /\ out.args[1].conditions.present
    /\ out.args[1].conditions.season = "bogus"
    /\ out.args[1].random_seed.tag = "some"
    /\ out.res.predicted_temp_celsius > 0

-----------------------------------------------------------------------------
\* Reference values of the miner response generator (SpecEngine)

\* the precipitation and risk errors of the response r to synapse, as
\* numerators over 2
GenErrors(synapse, r) ==
    LET seed == GenSeed(synapse) + (r.uid - 1) * 7
        q == GenTier(r.tier)
    IN  IF r.uid = 1
        THEN [precip |-> 50 * GaussHalf(seed, 8), risk |-> 2 * GaussHalf(seed, 9)]
        ELSE [precip |-> q.precip * GaussHalf(seed, 1),
              risk |-> q.risk * GaussHalf(seed, 2)]

\* the responses are built around base * season mult * enso mult for a
\* missing precipitation and base + season + enso increase for a missing risk
ComposedAround(synapse, ground_truth, enso_impact, responses) ==
    LET baseline == LookupBaseline(synapse.location)
        season_impact == LookupSeason(ConditionOf(synapse, "season", "normal"))
    IN  \A p \in DOMAIN responses :
            LET r == responses[p]
                err == GenErrors(synapse, r)
            IN  /\ ground_truth.actual_precip_mm.tag = "absent" =>
                        r.predicted_precip_mm =
                            ClampNonNeg(2 * baseline.base_precip_mm
                                          * season_impact.precip_mult
                                          * enso_impact.precip_mult
                                        + 100 * err.precip, 200)
                /\ ground_truth.actual_risk_index.tag = "absent" =>
                        r.predicted_risk_index =
                            ClampRisk(2 * (baseline.risk_baseline
                                           + season_impact.risk_increase
                                           + enso_impact.risk_increase)
                                      + err.risk)

\* C23: where the ground truth lacks precipitation or risk, the generator's
\* reference value is the baseline adjusted by the season modifier and by
\* the ENSO modifier, as in run_miner_prediction.
ReferenceComposed ==
    IsGen =>
        ComposedAround(out.args[2], out.args[3],
                       LookupEnso(ConditionOf(out.args[2], "enso_state", "neutral")),
                       out.res)

\* what the generator does: the ENSO modifier is left out of the reference
ReferenceSeasonOnly ==
    IsGen => ComposedAround(out.args[2], out.args[3], NeutralImpact, out.res)

\* C24: in every batch of the miner response generator the miner at pool
\* position 0 (uid 1) has the highest score of the batch and rank 1.
TopMinerBest ==
    IsGen =>
        \A p \in DOMAIN out.res :
            out.res[p].uid = 1 =>
                /\ out.res[p].rank = 1
                /\ \A q \in DOMAIN out.res : out.res[q].score <= out.res[p].score

-----------------------------------------------------------------------------
\* Effects of a tempo cycle (SpecDeactivated)

RanTempo == out = NoCall /\ out'.op = "full_tempo_cycle" /\ out'.res.status = 200

\* v is the first of the active validators with the highest stake
IsLead(v) ==
    /\ validators[v].is_active
    /\ \A w \in DOMAIN validators :
            validators[w].is_active =>
                /\ validators[w].stake <= validators[v].stake
                /\ w < v => validators[w].stake < validators[v].stake

\* C25: a successful tempo cycle adds three results to the history, for
\* short_term_forecast, risk_index and long_range_trend in this order, of
\* types historical, historical, near_term; they carry the tempo number the
\* cycle started in, the tempo then advances by one, and the active
\* validator with the highest stake, and no other, has its challenges_sent
\* raised, by 3.
TempoEffects ==
    [][RanTempo =>
        /\ Len(challenges') = Len(challenges) + 3
        /\ SubSeq(challenges', 1, Len(challenges)) = challenges
        /\ out'.res.body.challenges
                = SubSeq(challenges', Len(challenges) + 1, Len(challenges) + 3)
        /\ \A i \in 1..3 :
                LET r == challenges'[Len(challenges) + i]
                IN  /\ r.synapse.task_type
                            = <<"short_term_forecast", "risk_index",
                                "long_range_trend">>[i]
                    /\ r.challenge_type
                            = <<"historical", "historical", "near_term">>[i]
                    /\ r.tempo = netState.current_tempo
        /\ netState' = [netState EXCEPT !.current_tempo = @ + 1]
        /\ \A v \in DOMAIN validators :
                IF IsLead(v)
                THEN validators'[v].challenges_sent
                        = validators[v].challenges_sent + 3
                ELSE validators'[v] = validators[v]]_vars

\* a cycle led by the third validator, the second being deactivated
TempoEffectsWitness ==
    /\ out.op = "full_tempo_cycle"
    /\ out.res.status = 200
    /\ Len(validators) = 3
    /\ out.res.body.lead_validator_uid = 3
    /\ validators[3].challenges_sent >= 3
    /\ validators[2].stake > validators[3].stake
    /\ Len(challenges) >= 3

-----------------------------------------------------------------------------
\* Effects of a freeform challenge (SpecDeactivated)

\* C26: a successful run_challenge adds one result to the history, raises
\* the challenges_sent of the validator that issued it by 1 and sets its
\* last_weight_block to the block height the call started at, leaves every
\* other validator as it was and advances the block height by 1 to 5; no
\* step of any operation lowers the block height.
ChallengeEffects ==
    [][/\ netState'.block_height >= netState.block_height
       /\ RanChallenge =>
            LET uid == out'.args[1]
            IN  /\ challenges' = Append(challenges, out'.res.body)
                /\ validators'[uid]
                        = [validators[uid] EXCEPT
                              !.challenges_sent = @ + 1,
                              !.last_weight_block = Some(netState.block_height)]
                /\ \A v \in DOMAIN validators :
                        v # uid => validators'[v] = validators[v]
                /\ DOMAIN validators' = DOMAIN validators
                /\ netState'.block_height - netState.block_height \in 1..5
                /\ netState'.current_tempo = netState.current_tempo]_vars

\* a challenge issued by the second of three validators
ChallengeEffectsWitness ==
    /\ out.op = "run_challenge"
    /\ out.res.status = 200
    /\ out.args[1] = 2
    /\ Len(validators) = 3
    /\ validators[2].challenges_sent = 1
    /\ validators[2].last_weight_block = Some(0)
    /\ validators[1].challenges_sent = 0
    /\ netState.block_height \in 1..5
    /\ Len(challenges) = 1

-----------------------------------------------------------------------------
\* The distribution a tempo cycle reports (SpecDeactivated)

TempoDone == out.op = "full_tempo_cycle" /\ out.res.status = 200

\* the sum of tau_earned over the scores of the cycle's challenges, in micro
\* TAO, and the number of these scores
TempoEarned ==
    SumSeq([i \in DOMAIN out.res.body.challenges |->
                SumOf(out.res.body.challenges[i].scores, "tau_earned")])
TempoScores ==
    SumSeq([i \in DOMAIN out.res.body.challenges |->
                Len(out.res.body.challenges[i].scores)])

\* C27: the total_tao_distributed a tempo cycle returns is the sum of
\* tau_earned over the scores of its three challenges, up to the rounding of
\* each share to 1e-6 TAO, whenever a miner responded.
DistributionReport ==
    (TempoDone /\ TempoScores > 0) =>
        2 * Abs(100 * out.res.body.total_tao_distributed - TempoEarned)
            <= TempoScores

\* what the cycle does report: the whole emission of the tempo, of which the
\* three challenges hand out the miners' 41 %
DistributionReportEmission ==
    (TempoDone /\ TempoScores > 0) =>
        /\ out.res.body.total_tao_distributed
                = netState.total_emission_per_tempo
        /\ 2 * Abs(41 * netState.total_emission_per_tempo - TempoEarned)
                <= TempoScores + 2 * 3

-----------------------------------------------------------------------------
\* Freeform challenges that carry a seed, run again and again

MaxRuns == 2

\* a subnet with one validator and two miners
InitSeeded ==
    /\ miners = <<NewMiner(1, HotkeyUniverse[2], "high"),
                  NewMiner(2, HotkeyUniverse[3], "entry")>>
    /\ validators = <<NewValidator(1, HotkeyUniverse[2], 1000)>>
    /\ netState \in {[block_height |-> 0, current_tempo |-> 0,
                      total_emission_per_tempo |-> e] : e \in Emissions}
    /\ challenges = <<>>
    /\ hashSalt \in HashSalts
    /\ clock = 0
    /\ out = NoCall
    /\ earlier = [gen |-> NoCall, score |-> NoCall, pred |-> NoCall,
                  demo |-> NoCall]

SeededSynapses ==
    {Synapse("risk_index", "Tokyo, Japan", "2026-03-01", NoConditions,
             Some(seed)) : seed \in {0, 7}}

\* POST /validators/{uid}/run-challenge with a synapse of the caller
RunSeeded ==
    /\ Idle
    /\ Len(challenges) < MaxRuns
    /\ \E uid \in DOMAIN validators, synapse \in SeededSynapses,
          g \in GlobalSeeds :
        LET is_historical == 10 * Raw(g, 0) < 7 * RawMax
            blocks == RandInt(g, 1, 1, 5)
        IN  \E entropies \in
                EntropyChoices(synapse, Len(ActiveMiners(miners))) :
              \E r \in {run_challenge(uid, synapse, is_historical,
                                       entropies, blocks)} :
                  /\ out' = Call("run_challenge",
                                 <<uid, synapse.task_type, Some(synapse)>>,
                                 r.response)
                  /\ miners' = r.miners
                  /\ validators' = r.validators
                  /\ netState' = r.netState
                  /\ challenges' = r.challenges
    /\ UNCHANGED <<hashSalt, clock, earlier>>

NextSeeded == RunSeeded \/ Tick \/ Respond

SpecSeeded == InitSeeded /\ [][NextSeeded]_vars

\* two historical results for the same challenge
SameSeeded(a, b) ==
    /\ a.synapse = b.synapse
    /\ a.synapse.random_seed.tag = "some"
    /\ a.challenge_type = "historical"
    /\ b.challenge_type = "historical"

\* C28: two run_challenge executions for the same synapse with an explicit
\* integer random_seed, 0 included, on the same miners synthesize the same
\* ground truth when both are historical, and dispatch the same
\* predictions.
SeedDeterminism ==
    \A i, j \in DOMAIN challenges :
        /\ SameSeeded(challenges[i], challenges[j]) =>
                challenges[i].ground_truth = challenges[j].ground_truth
        /\ (/\ challenges[i].synapse = challenges[j].synapse
            /\ challenges[i].synapse.random_seed.tag = "some") =>
                challenges[i].miner_predictions
                    = challenges[j].miner_predictions

\* the same for the seeds other than 0
SeedDeterminismNonzero ==
    \A i, j \in DOMAIN challenges :
        challenges[i].synapse.random_seed.val # 0 =>
            /\ SameSeeded(challenges[i], challenges[j]) =>
                    challenges[i].ground_truth = challenges[j].ground_truth
            /\ challenges[i].synapse = challenges[j].synapse =>
                    challenges[i].miner_predictions
                        = challenges[j].miner_predictions

\* with seed 0 the predictions are the same, the ground truth is not
SeedZeroPredictions ==
    \A i, j \in DOMAIN challenges :
        challenges[i].synapse = challenges[j].synapse =>
            challenges[i].miner_predictions = challenges[j].miner_predictions

-----------------------------------------------------------------------------
\* Two register_miner requests served by two threads at once: each thread
\* runs the scan of l.155-157 and then the add_miner call of l.159, and the
\* scheduler may switch threads between the two

ConcurrentHotkeys == {HotkeyUniverse[2], HotkeyUniverse[3]}

\* the two requests in flight: their bodies, where each thread stands
\* ("scan", "add", "done") and what each has returned
Registering(reqs, pcs, results) ==
    [op |-> "registering", args |-> reqs, res |-> results, at |-> clock,
     pc |-> pcs]

NoResponse == Response(0, <<>>)

\* both requests are accepted and handed to a thread each
RegArrive ==
    /\ Idle
    /\ Len(miners) + 2 <= MaxMiners
    /\ \E h1, h2 \in ConcurrentHotkeys, t1, t2 \in Tiers :
        out' = Registering(<<[hotkey |-> h1, tier |-> t1],
                             [hotkey |-> h2, tier |-> t2]>>,
                           <<"scan", "scan">>,
                           <<NoResponse, NoResponse>>)
    /\ UNCHANGED <<registry, hashSalt, clock, earlier>>

\* l.155-157 in thread t: the loop over db.get_miners()
RegScan(t) ==
    /\ out.op = "registering"
    /\ out.pc[t] = "scan"
    /\ IF HotkeyTaken(miners, out.args[t].hotkey)
       THEN out' = [out EXCEPT
                       !.pc[t] = "done",
                       !.res[t] = Response(400, "Hotkey already registered")]
       ELSE out' = [out EXCEPT !.pc[t] = "add"]
    /\ UNCHANGED <<registry, hashSalt, clock, earlier>>

\* l.159-160 in thread t: db.add_miner and the response
RegAdd(t) ==
    /\ out.op = "registering"
    /\ out.pc[t] = "add"
    /\ LET result == NewMiner(Len(miners) + 1, out.args[t].hotkey,
                              out.args[t].tier)
       IN  /\ miners' = Append(miners, result)
           /\ out' = [out EXCEPT !.pc[t] = "done",
                                 !.res[t] = Response(200, result)]
    /\ UNCHANGED <<validators, netState, challenges, hashSalt, clock, earlier>>

\* both callers have their responses
RegReturned ==
    /\ out.op = "registering"
    /\ out.pc = <<"done", "done">>
    /\ out' = NoCall
    /\ UNCHANGED <<registry, hashSalt, clock, earlier>>

NextConcurrent ==
    \/ RegArrive
    \/ \E t \in 1..2 : RegScan(t)
    \/ \E t \in 1..2 : RegAdd(t)
    \/ RegReturned

SpecConcurrent == Init /\ [][NextConcurrent]_vars

ConcurrentRejection ==
    [][/\ \A u \in DOMAIN miners' : miners'[u].uid = u
       /\ \A t \in 1..2 :
            (/\ out.op = "registering"
             /\ out.args[1].hotkey = out.args[2].hotkey
             /\ out.res[3 - t].status = 200
             /\ out.pc[t] = "scan"
             /\ out'.pc[t] # "scan") =>
                out'.res[t].status = 400]_vars

-----------------------------------------------------------------------------
\* The engine functions called in any order on a populated subnet, the
\* caller keeping generator and scenario outcomes for comparison

PureGenerate ==
    \E synapse \in {Synapse("risk_index", "London, UK", "2026-02-25",
                             NoConditions, seed) : seed \in {Some(7), AbsentInt}} :
        /\ GenerateCall("risk_index", synapse,
                        GroundTruth(AbsentInt, AbsentInt, AbsentInt, AbsentBool),
                        6)
        /\ UNCHANGED earlier

Keep ==
    /\ out # NoCall
    /\ out' = NoCall
    /\ earlier' =
        IF out.op = "generate_miner_responses" THEN [earlier EXCEPT !.gen = out]
        ELSE IF out.op = "run_demo" THEN [earlier EXCEPT !.demo = out]
        ELSE earlier
    /\ UNCHANGED <<registry, hashSalt, clock>>

NextPurity ==
    \/ PureGenerate
    \/ RepeatPredict
    \/ RepeatScore
    \/ RunDemo
    \/ Tick
    \/ Keep

SpecPurity == InitSeeded /\ [][NextPurity]_vars

EngineOps ==
    {"generate_miner_responses", "run_miner_prediction", "score_prediction",
     "run_demo"}

\* the same scenario run again
SameDemoCall ==
    /\ out.op = "run_demo"
    /\ out.res.status = 200
    /\ earlier.demo.op = "run_demo"
    /\ out.args = earlier.demo.args

====
